---- MODULE Spec2Model ----
(***************************************************************************)
(* txob: transactional outbox event processor.                             *)
(*                                                                         *)
(* The model covers the processor engine (processEvent, the polling loop   *)
(* of EventProcessor.start, the in-flight id set and the bounded work      *)
(* pool) running as several processor instances against one store that     *)
(* behaves as the Postgres adapter does: a plain SELECT for polling, a     *)
(* SELECT ... FOR UPDATE SKIP LOCKED inside a transaction for locking, an  *)
(* UPDATE that becomes visible at COMMIT and a ROLLBACK on any exception.  *)
(* Time is counted in seconds and instants are kept relative to the        *)
(* current time: 0 is now, k > 0 lies k seconds ahead and Past stands for  *)
(* every earlier instant; Tick lets one second pass by shifting every      *)
(* stored instant.  The code only compares instants with the current time  *)
(* and tests them for being set, so nothing it can observe is lost.        *)
(*                                                                         *)
(* Spec is the running system: two processors, injected faults.            *)
(* ScenarioSpec, HintSpec and StopSpec are one processor each: the         *)
(* documented scenarios with three handlers and maxErrors = 3, a processor *)
(* that honours TxOBError.backoffUntil, and the start/stop lifecycle.      *)
(* OutageSpec is one processor whose storage calls fail, with a second     *)
(* event inserted at any time; LimitSpec one processor with any handler    *)
(* concurrency; TxSpec the Postgres adapter's transaction(fn) alone;       *)
(* HybridSpec one processor started with a wakeup emitter.  PoolSpec is    *)
(* one processor with a small work pool and two events, CancelSpec one     *)
(* processor that is stopped during an attempt, and MongoSpec the MongoDB  *)
(* adapter's lock token under two processors.                              *)
(***************************************************************************)
EXTENDS Integers, Sequences, FiniteSets, TLC

\* ---------------------------------------------------------------- bounds
MaxErrorsOpt == 2       \* the maxErrors option given to the processors
MaxFaults    == 1       \* injected faults: storage failures, hook failures, crashes
MaxQueued    == 2       \* start() is not called with this many tasks waiting in the pool

\* ------------------------------------------------------ program constants
baseDelayMs == 1        \* 1000 ms, in seconds
maxDelayMs  == 60       \* 1000 * 60 ms, in seconds
defaultMaxEventConcurrency   == 20
defaultMaxHandlerConcurrency == 10

\* ------------------------------------------------------------ the inputs
Procs  == {"p1", "p2"}
Events == {1, 2}
HandlerNames == {"a", "b", "c"}
Null == -9              \* an absent Date
Past == -1              \* an instant before now

\* handlerMap: "X" has two handlers, "S" has three, "Z" has an empty group,
\* "Y" has no entry
handlerMap == [X |-> <<"a", "b">>, S |-> <<"a", "b", "c">>, Z |-> <<>>]
\* the types of the events inserted under the default options
EventTypes == {"X", "Y", "Z"}
Outcomes   == {"ok", "transient", "unprocessable"}

onEventMaxErrorsReached == TRUE     \* the hook is configured

VARIABLES
  opts,         \* the options the processors were constructed with
  store,        \* the events table: committed rows
  rowLock,      \* the row locks of open transactions: event -> processor or "none"
  created,      \* events whose follow-up event (inserted by the hook) is committed
  proc,         \* the processor instances
  invocations,  \* history: handler invocations begun, per event and handler
  attempts,     \* history: attempts that invoked a handler, per event
  returned,     \* history: handlers that have returned successfully at least once
  rolledBack,   \* history: events one of whose attempts ended in a rollback
  hookThrew,    \* history: events for which the max-errors hook has thrown
  faults,       \* history: faults injected so far
  pgTx,         \* the adapter's transaction(fn) call in progress, per connection
  hybrid,       \* the wakeup side of a processor started with a wakeup emitter
  signals,      \* wakeup notifications sent and not yet delivered or lost
  mongo         \* the MongoDB adapter: driver, committed documents, open sessions

vars == <<opts, store, rowLock, created, proc, invocations, attempts,
          returned, rolledBack, hookThrew, faults, pgTx, hybrid, signals, mongo>>

maxErrors == opts.maxErrors
maxEventConcurrency == opts.maxEventConcurrency
maxHandlerConcurrency == opts.maxHandlerConcurrency

Min(a, b) == IF a < b THEN a ELSE b

RECURSIVE Pow2(_)
Pow2(n) == IF n = 0 THEN 1 ELSE 2 * Pow2(n - 1)

\* ------------------------------------------------------------ data model
NoResult == [processed_at |-> Null, unprocessable_at |-> Null, errors |-> 0]

\* a row of the events table as a producer inserts it
NewEvent(type) ==
  [type |-> type, errors |-> 0, backoff_until |-> Null, processed_at |-> Null,
   handler_results |-> [h \in HandlerNames |-> NoResult]]

\* an id without a row in the table
NoRow == NewEvent("none")
Rows == {e \in Events : store[e] # NoRow}

\* Date.now(), getDate(): the current time
now == 0
getDate == now

\* defaultBackoff(errorCount)
defaultBackoffNoGrowth(errorCount) == now + baseDelayMs

defaultBackoff(errorCount) ==
  now + Min(baseDelayMs * Pow2(errorCount), maxDelayMs)

backoffOfPreviousCount(errorCount) == defaultBackoff(errorCount - 1)

backoff(errorCount) == defaultBackoff(errorCount)

\* a document of the MongoDB events collection: the mutable fields and the
\* lock token ("none" for null, else the session that stamped it)
NewDoc ==
  [processed_at |-> Null, errors |-> 0, backoff_until |-> Null, lock |-> "none"]

\* no transaction open in the session of a processor
NoSession == [pc |-> "none", e |-> 0, stamped |-> FALSE, event |-> NewDoc]

\* the MongoDB side when the MongoDB adapter is not in use
NoMongo ==
  [driver |-> "ModifyResult",
   docs |-> [e \in Events |-> NewDoc],
   session |-> [p \in Procs |-> NoSession]]

\* the WHERE clause shared by getEventsToProcess and getEventByIdForUpdateSkipLocked
ReadyToProcessNoExpiry(ev) ==
  /\ ev.processed_at = Null
  /\ ev.backoff_until = Null
  /\ ev.errors < maxErrors

ReadyToProcess(ev) ==
  /\ ev.processed_at = Null
  /\ (ev.backoff_until = Null \/ ev.backoff_until < now)
  /\ ev.errors < maxErrors

\* the wakeup side of a processor that has not been started in hybrid mode;
\* silent: no wakeup has been seen for wakeupTimeoutMs; polls: the polls in
\* progress; wakeups: history, the wakeups the listener has received
NoHybrid ==
  [listening |-> FALSE, throttle |-> "idle", isPolling |-> FALSE,
   silent |-> FALSE, polls |-> 0, wakeups |-> 0]

\* a connection on which no transaction(fn) call is in progress
NoTx ==
  [pc |-> "idle", queries |-> <<>>, error |-> "none", rollbackError |-> "none",
   outcome |-> "none", raised |-> [id |-> "none", message |-> <<>>, cause |-> "none"]]

\* a processEvent task of one processor for one event; backoffs holds the
\* backoffUntil instants of the TxOBErrors thrown by the attempt's handlers;
\* detached: the pool has settled the task's add() promise at the abort
\* while the task's function is still running
NoTask ==
  [pc |-> "none", errors |-> 0, lockedEvent |-> NewEvent("X"), errored |-> FALSE,
   run |-> [h \in HandlerNames |-> "idle"], failed |-> FALSE, hooked |-> FALSE,
   creates |-> FALSE, backoffs |-> {}, detached |-> FALSE]

InTx == {"begin", "handlers", "hook", "update"}
Holding == {"handlers", "hook", "update"}

\* a processor instance right after construction; stopResult is the outcome
\* of the last stop() that has returned: "none", "ok" or "timeout"; warned is
\* the last warning logged by start() or stop()
NewProcessor ==
  [state |-> "stopped", aborted |-> FALSE, paused |-> FALSE, loop |-> "off",
   queuedEventIds |-> {}, queue |-> <<>>, task |-> [e \in Events |-> NoTask],
   stopResult |-> "none", warned |-> "none"]

\* the options of the constructor, defaults filled in
DefaultOpts ==
  [maxErrors |-> MaxErrorsOpt,
   maxEventConcurrency |-> defaultMaxEventConcurrency,
   maxHandlerConcurrency |-> defaultMaxHandlerConcurrency]

\* everything but the options and the table
InitRest ==
  /\ rowLock = [e \in Events |-> "none"]
  /\ created = {}
  /\ proc = [p \in Procs |-> NewProcessor]
  /\ invocations = [e \in Events |-> [h \in HandlerNames |-> 0]]
  /\ attempts = [e \in Events |-> 0]
  /\ returned = [e \in Events |-> {}]
  /\ rolledBack = {}
  /\ hookThrew = {}
  /\ faults = 0
  /\ pgTx = [p \in Procs |-> NoTx]
  /\ hybrid = [p \in Procs |-> NoHybrid]
  /\ signals = 0
  /\ mongo = NoMongo

\* two processors with the default options and one inserted event of any type
Init ==
  /\ opts = DefaultOpts
  /\ \E t \in EventTypes : store = [e \in Events |-> IF e = 1 THEN NewEvent(t) ELSE NoRow]
  /\ InitRest

\* ------------------------------------------------------------ processEvent
Range(s) == {s[i] : i \in DOMAIN s}

\* handlerMap[lockedEvent.type] ?? {}
eventHandlerMap(ev) ==
  IF ev.type \in DOMAIN handlerMap THEN handlerMap[ev.type] ELSE <<>>

\* !(lockedEvent.type in handlerMap): "missing event handler map"
missingEventHandlerMapNever(lockedEvent) == FALSE

missingEventHandlerMapEmpty(lockedEvent) == eventHandlerMap(lockedEvent) = <<>>

missingEventHandlerMap(lockedEvent) == lockedEvent.type \notin DOMAIN handlerMap

Active(tk) == Cardinality({h \in HandlerNames : tk.run[h] = "running"})

\* "handler already processed" / "handler unprocessable": the handler is skipped
alreadyProcessedNever(handlerResults) == FALSE

alreadyProcessed(handlerResults) == handlerResults.processed_at # Null

alreadyUnprocessableNever(handlerResults) == FALSE

alreadyUnprocessable(handlerResults) == handlerResults.unprocessable_at # Null

\* pLimit(maxHandlerConcurrency): start the waiting handler bodies in handler
\* map order while a slot is free; a body whose result already has
\* processed_at or unprocessable_at returns without invoking the handler
RECURSIVE handlerLimitDropsOnAbort(_, _)
handlerLimitDropsOnAbort(tk, order) ==
  IF order = <<>> THEN tk
  ELSE LET h == Head(order)
           handlerResults == tk.lockedEvent.handler_results[h]
       IN IF tk.run[h] # "waiting" THEN handlerLimitDropsOnAbort(tk, Tail(order))
          ELSE IF tk.detached
                 THEN handlerLimitDropsOnAbort([tk EXCEPT !.run[h] = "done"], Tail(order))
          ELSE IF Active(tk) >= maxHandlerConcurrency THEN tk
          ELSE IF alreadyProcessed(handlerResults)
                 THEN handlerLimitDropsOnAbort([tk EXCEPT !.run[h] = "done"], Tail(order))
          ELSE IF alreadyUnprocessable(handlerResults)
                 THEN handlerLimitDropsOnAbort([tk EXCEPT !.run[h] = "done"], Tail(order))
          ELSE handlerLimitDropsOnAbort([tk EXCEPT !.run[h] = "running"], Tail(order))

RECURSIVE handlerLimitUnbounded(_, _)
handlerLimitUnbounded(tk, order) ==
  IF order = <<>> THEN tk
  ELSE LET h == Head(order)
           handlerResults == tk.lockedEvent.handler_results[h]
       IN IF tk.run[h] # "waiting" THEN handlerLimitUnbounded(tk, Tail(order))
          ELSE IF alreadyProcessed(handlerResults)
                 THEN handlerLimitUnbounded([tk EXCEPT !.run[h] = "done"], Tail(order))
          ELSE IF alreadyUnprocessable(handlerResults)
                 THEN handlerLimitUnbounded([tk EXCEPT !.run[h] = "done"], Tail(order))
          ELSE handlerLimitUnbounded([tk EXCEPT !.run[h] = "running"], Tail(order))

RECURSIVE handlerLimit(_, _)
handlerLimit(tk, order) ==
  IF order = <<>> THEN tk
  ELSE LET h == Head(order)
           handlerResults == tk.lockedEvent.handler_results[h]
       IN IF tk.run[h] # "waiting" THEN handlerLimit(tk, Tail(order))
          ELSE IF Active(tk) >= maxHandlerConcurrency THEN tk
          ELSE IF alreadyProcessed(handlerResults)
                 THEN handlerLimit([tk EXCEPT !.run[h] = "done"], Tail(order))
          ELSE IF alreadyUnprocessable(handlerResults)
                 THEN handlerLimit([tk EXCEPT !.run[h] = "done"], Tail(order))
          ELSE handlerLimit([tk EXCEPT !.run[h] = "running"], Tail(order))

\* the terminal sweep: every handler without processed_at is unprocessable
allRemainingHandlersUnprocessableNoLength(ev) ==
  LET remainingHandlers ==
        {h \in Range(eventHandlerMap(ev)) : ev.handler_results[h].processed_at = Null}
  IN \A h \in remainingHandlers : ev.handler_results[h].unprocessable_at # Null

allRemainingHandlersUnprocessableNever(ev) == FALSE

allRemainingHandlersUnprocessableSome(ev) ==
  LET remainingHandlers ==
        {h \in Range(eventHandlerMap(ev)) : ev.handler_results[h].processed_at = Null}
  IN \E h \in remainingHandlers : ev.handler_results[h].unprocessable_at # Null

allRemainingHandlersUnprocessable(ev) ==
  LET remainingHandlers ==
        {h \in Range(eventHandlerMap(ev)) : ev.handler_results[h].processed_at = Null}
  IN /\ Cardinality(remainingHandlers) > 0
     /\ \A h \in remainingHandlers : ev.handler_results[h].unprocessable_at # Null

\* lockedEvent.errors = Math.min(lockedEvent.errors + 1, maxErrors)
nextErrorsNoClamp(errors) == errors + 1

nextErrorsNoIncrement(errors) == Min(errors, maxErrors)

nextErrors(errors) == Min(errors + 1, maxErrors)

\* the next state of the event once Promise.allSettled has resolved; the task
\* then awaits the hook or updateEvent
ComputeNextStateHookOnError(tk) ==
  LET ev0     == tk.lockedEvent
      sweep   == allRemainingHandlersUnprocessable(ev0)
      ev1     == IF sweep THEN [ev0 EXCEPT !.errors = maxErrors] ELSE ev0
      errored == tk.errored \/ sweep
      errors  == nextErrors(ev1.errors)
      ev2     == IF errors = maxErrors
                   THEN [ev1 EXCEPT !.errors = errors, !.backoff_until = Null,
                                    !.processed_at = getDate]
                   ELSE [ev1 EXCEPT !.errors = errors,
                                    !.backoff_until = backoff(errors)]
  IN IF errored
       THEN [tk EXCEPT !.errored = TRUE, !.lockedEvent = ev2,
                       !.pc = IF onEventMaxErrorsReached THEN "hook" ELSE "update",
                       !.hooked = onEventMaxErrorsReached]
       ELSE [tk EXCEPT !.lockedEvent = [ev1 EXCEPT !.backoff_until = Null,
                                                   !.processed_at = getDate],
                       !.pc = "update"]

ComputeNextState(tk) ==
  LET ev0     == tk.lockedEvent
      sweep   == allRemainingHandlersUnprocessable(ev0)
      ev1     == IF sweep THEN [ev0 EXCEPT !.errors = maxErrors] ELSE ev0
      errored == tk.errored \/ sweep
      errors  == nextErrors(ev1.errors)
  IN IF errored
       THEN IF errors = maxErrors
              THEN [tk EXCEPT !.errored = TRUE,
                              !.lockedEvent = [ev1 EXCEPT !.errors = errors,
                                                          !.backoff_until = Null,
                                                          !.processed_at = getDate],
                              !.pc = IF onEventMaxErrorsReached THEN "hook" ELSE "update",
                              !.hooked = onEventMaxErrorsReached]
              ELSE [tk EXCEPT !.errored = TRUE,
                              !.lockedEvent = [ev1 EXCEPT !.errors = errors,
                                                          !.backoff_until = backoff(errors)],
                              !.pc = "update"]
       ELSE [tk EXCEPT !.lockedEvent = [ev1 EXCEPT !.backoff_until = Null,
                                                   !.processed_at = getDate],
                       !.pc = "update"]

\* Promise.allSettled: once no handler body is left, compute the next state
allSettledFailFast(tk) ==
  IF ~ tk.failed /\ \E h \in HandlerNames : tk.run[h] \in {"waiting", "running"}
    THEN tk
    ELSE ComputeNextState(tk)

allSettled(tk) ==
  IF \E h \in HandlerNames : tk.run[h] \in {"waiting", "running"}
    THEN tk
    ELSE ComputeNextState(tk)

\* run the handler pool, then allSettled (the pool's result is bound as a
\* value so that it is computed once)
Dispatch(tk) ==
  CHOOSE r \in {allSettled(tk1) :
                 tk1 \in {handlerLimit(tk, eventHandlerMap(tk.lockedEvent))}} : TRUE

\* the handlers invoked by a step that takes a task from tk to tk1
Invoked(tk, tk1) ==
  {h \in HandlerNames : tk.run[h] # "running" /\ tk1.run[h] = "running"}

\* ------------------------------------------------------ the work pool (PQueue)
\* the tasks the pool counts as pending: started and their add() not settled
Running(pr) == {e \in Events : pr.task[e].pc \in InTx /\ ~ pr.task[e].detached}

\* start queued tasks while the pool has a free slot and is not paused; a task
\* that the cheap gate of processEvent turns away finishes at once
RECURSIVE tryToStartAnotherUnbounded(_)
tryToStartAnotherUnbounded(pr) ==
  IF pr.paused \/ pr.queue = <<>>
    THEN pr
    ELSE LET e == Head(pr.queue)
         IN IF pr.aborted \/ pr.task[e].errors >= maxErrors
              THEN tryToStartAnotherUnbounded([pr EXCEPT !.queue = Tail(@),
                                                         !.task[e] = NoTask,
                                                         !.queuedEventIds = @ \ {e}])
              ELSE tryToStartAnotherUnbounded([pr EXCEPT !.queue = Tail(@),
                                                         !.task[e].pc = "begin"])

RECURSIVE tryToStartAnother(_)
tryToStartAnother(pr) ==
  IF pr.paused \/ pr.queue = <<>> \/ Cardinality(Running(pr)) >= maxEventConcurrency
    THEN pr
    ELSE LET e == Head(pr.queue)
         IN IF pr.aborted \/ pr.task[e].errors >= maxErrors
              THEN tryToStartAnother([pr EXCEPT !.queue = Tail(@),
                                                !.task[e] = NoTask,
                                                !.queuedEventIds = @ \ {e}])
              ELSE tryToStartAnother([pr EXCEPT !.queue = Tail(@),
                                                !.task[e].pc = "begin"])

\* the task's finally block and the pool's next()
FinishTask(pr, e) ==
  tryToStartAnother([pr EXCEPT !.task[e] = NoTask, !.queuedEventIds = @ \ {e}])

\* getEventsToProcess: ready events, ordered by timestamp (= id)
RECURSIVE SortedIds(_)
SortedIds(S) ==
  IF S = {} THEN <<>>
  ELSE LET m == CHOOSE x \in S : \A y \in S : x <= y
       IN <<m>> \o SortedIds(S \ {m})

getEventsToProcess == SortedIds({e \in Rows : ReadyToProcess(store[e])})

\* SELECT ... WHERE id = $1 AND <ready> FOR UPDATE SKIP LOCKED: the row, or
\* NoRow for null when it is missing, not ready or locked by another transaction
getEventByIdNoLock(e) ==
  IF e \in Rows /\ ReadyToProcess(store[e]) THEN store[e] ELSE NoRow

getEventByIdNoResults(e) ==
  IF e \in Rows /\ ReadyToProcess(store[e]) /\ rowLock[e] = "none"
    THEN [store[e] EXCEPT !.handler_results = [h \in HandlerNames |-> NoResult]]
    ELSE NoRow

getEventByIdIgnoresBackoff(e) ==
  IF e \in Rows /\ store[e].processed_at = Null /\ store[e].errors < maxErrors
       /\ rowLock[e] = "none"
    THEN store[e] ELSE NoRow

getEventByIdForUpdateSkipLocked(e) ==
  IF e \in Rows /\ ReadyToProcess(store[e]) /\ rowLock[e] = "none"
    THEN store[e] ELSE NoRow

RECURSIVE Submit(_, _)
Submit(pr, ids) ==
  IF ids = <<>> THEN pr
  ELSE LET e == Head(ids)
       IN Submit([pr EXCEPT !.queuedEventIds = @ \cup {e},
                            !.queue = Append(@, e),
                            !.task[e] = IF @.pc \in InTx THEN @
                                        ELSE [NoTask EXCEPT !.pc = "queued",
                                                            !.errors = store[e].errors]],
                 Tail(ids))

\* a start() that replaces the AbortController and resumes the pool
StartResumes(p) ==
  /\ proc[p].state = "stopped"
  /\ proc[p].loop = "off"
  /\ Len(proc[p].queue) < MaxQueued
  /\ proc' = [proc EXCEPT ![p] = tryToStartAnother(
                 [@ EXCEPT !.state = "started", !.loop = "on",
                           !.queuedEventIds = {},
                           !.aborted = FALSE, !.paused = FALSE])]
  /\ UNCHANGED <<opts, mongo, pgTx, hybrid, signals, store, rowLock, created, invocations, attempts, returned,
                 rolledBack, faults,
                 hookThrew>>

\* ------------------------------------------------------------------ actions
\* EventProcessor.start
Start(p) ==
  /\ proc[p].state = "stopped"
  /\ proc[p].loop = "off"
  /\ Len(proc[p].queue) < MaxQueued
  /\ proc' = [proc EXCEPT ![p].state = "started", ![p].loop = "on",
                          ![p].queuedEventIds = {}]
  /\ UNCHANGED <<opts, mongo, pgTx, hybrid, signals, store, rowLock, created, invocations, attempts, returned,
                 rolledBack, faults,
                 hookThrew>>

\* one iteration of the polling loop: getEventsToProcess returns, the events
\* not yet in flight are submitted to the pool, the loop sleeps and goes on
\* unless the signal is aborted
Poll(p) ==
  /\ proc[p].loop # "off"
  /\ \E events \in {getEventsToProcess} :
     \E unqueuedEvents \in {SelectSeq(events, LAMBDA e : e \notin proc[p].queuedEventIds)} :
     \E pr \in {Submit(proc[p], unqueuedEvents)} :
       proc' = [proc EXCEPT ![p] =
                  [tryToStartAnother(pr) EXCEPT
                     !.loop = IF pr.aborted THEN "off" ELSE "on"]]
  /\ UNCHANGED <<opts, mongo, pgTx, hybrid, signals, store, rowLock, created, invocations, attempts, returned,
                 rolledBack, faults,
                 hookThrew>>

\* getEventsToProcess throws and the error escapes the loop: no later poll
PollFailEndsLoop(p) ==
  /\ proc[p].loop = "on"
  /\ ~ proc[p].aborted
  /\ faults < MaxFaults
  /\ faults' = faults + 1
  /\ proc' = [proc EXCEPT ![p].loop = "off"]
  /\ UNCHANGED <<opts, mongo, pgTx, hybrid, signals, store, rowLock, created, invocations, attempts, returned,
                 rolledBack,
                 hookThrew>>

\* getEventsToProcess throws: logged, the loop sleeps and polls again
PollFail(p) ==
  /\ proc[p].loop = "on"
  /\ ~ proc[p].aborted
  /\ faults < MaxFaults
  /\ faults' = faults + 1
  /\ UNCHANGED <<opts, mongo, pgTx, hybrid, signals, store, rowLock, created, proc, invocations, attempts, returned,
                 rolledBack,
                 hookThrew>>

\* getEventByIdForUpdateSkipLocked returns; with a row the task re-gates,
\* resolves the handler group and dispatches the handlers
Lock(p, e) ==
  /\ proc[p].task[e].pc = "begin"
  /\ LET lockedEvent == getEventByIdForUpdateSkipLocked(e)
     IN IF lockedEvent = NoRow
          THEN \* null: the transaction commits empty
               /\ proc' = [proc EXCEPT ![p] = FinishTask(proc[p], e)]
               /\ UNCHANGED <<rowLock, invocations, attempts>>
          ELSE IF lockedEvent.processed_at # Null \/ lockedEvent.errors >= maxErrors
          THEN \* the re-gate under the lock: the transaction commits empty
               /\ proc' = [proc EXCEPT ![p] = FinishTask(proc[p], e)]
               /\ UNCHANGED <<rowLock, invocations, attempts>>
          ELSE LET missing == missingEventHandlerMap(lockedEvent)
                   tk0 == [proc[p].task[e] EXCEPT
                             !.pc = "handlers",
                             !.errored = missing,
                             !.lockedEvent =
                                IF missing
                                  THEN [lockedEvent EXCEPT !.errors = maxErrors]
                                  ELSE lockedEvent,
                             !.run = [h \in HandlerNames |->
                                        IF h \in Range(eventHandlerMap(lockedEvent))
                                          THEN "waiting" ELSE "idle"]]
               IN \E tk1 \in {Dispatch(tk0)} : \E invoked \in {Invoked(tk0, tk1)} :
                  /\ rowLock' = [rowLock EXCEPT ![e] = p]
                  /\ proc' = [proc EXCEPT ![p].task[e] = tk1]
                  /\ invocations' = [invocations EXCEPT ![e] =
                        [h \in HandlerNames |->
                           IF h \in invoked THEN @[h] + 1 ELSE @[h]]]
                  /\ attempts' = [attempts EXCEPT ![e] =
                        IF invoked # {} THEN @ + 1 ELSE @]
  /\ UNCHANGED <<opts, mongo, pgTx, hybrid, signals, store, created, returned, rolledBack, faults, hookThrew>>

\* a handler settles: it returned, threw ErrorUnprocessableEventHandler or
\* threw anything else
HandlerSettleRethrows(p, e, h, outcome) ==
  /\ proc[p].task[e].pc = "handlers"
  /\ proc[p].task[e].run[h] = "running"
  /\ IF outcome = "ok"
       THEN LET tk  == proc[p].task[e]
                tk0 == [tk EXCEPT !.lockedEvent.handler_results[h].processed_at = getDate,
                                  !.run[h] = "done"]
            IN \E tk1 \in {Dispatch(tk0)} : \E invoked \in {Invoked(tk0, tk1)} :
               /\ proc' = [proc EXCEPT ![p].task[e] = tk1]
               /\ invocations' = [invocations EXCEPT ![e] =
                     [g \in HandlerNames |->
                        IF g \in invoked THEN @[g] + 1 ELSE @[g]]]
               /\ returned' = [returned EXCEPT ![e] = @ \cup {h}]
               /\ UNCHANGED <<rowLock, rolledBack>>
       ELSE /\ rowLock' = [rowLock EXCEPT ![e] = "none"]
            /\ rolledBack' = rolledBack \cup {e}
            /\ proc' = [proc EXCEPT ![p] = FinishTask(proc[p], e)]
            /\ UNCHANGED <<invocations, returned>>
  /\ UNCHANGED <<opts, mongo, pgTx, hybrid, signals, store, created, attempts, hookThrew, faults>>

HandlerSettleClearsErrors(p, e, h, outcome) ==
  /\ proc[p].task[e].pc = "handlers"
  /\ proc[p].task[e].run[h] = "running"
  /\ LET tk  == proc[p].task[e]
         handlerResults == tk.lockedEvent.handler_results[h]
         res == CASE outcome = "ok" ->
                       [handlerResults EXCEPT !.processed_at = getDate,
                                              !.errors = 0]
                  [] outcome = "unprocessable" ->
                       [handlerResults EXCEPT !.unprocessable_at = getDate,
                                              !.errors = @ + 1]
                  [] OTHER ->
                       [handlerResults EXCEPT !.errors = @ + 1]
         tk0 == [tk EXCEPT !.lockedEvent.handler_results[h] = res,
                           !.errored = @ \/ outcome # "ok",
                           !.failed = @ \/ outcome # "ok",
                           !.run[h] = "done"]
     IN \E tk1 \in {Dispatch(tk0)} : \E invoked \in {Invoked(tk0, tk1)} :
        /\ proc' = [proc EXCEPT ![p].task[e] = tk1]
        /\ invocations' = [invocations EXCEPT ![e] =
              [g \in HandlerNames |->
                 IF g \in invoked THEN @[g] + 1 ELSE @[g]]]
  /\ returned' = IF outcome = "ok"
                   THEN [returned EXCEPT ![e] = @ \cup {h}] ELSE returned
  /\ UNCHANGED <<opts, mongo, pgTx, hybrid, signals, store, rowLock, created, attempts, rolledBack, faults,
                 hookThrew>>

HandlerSettle(p, e, h, outcome) ==
  /\ proc[p].task[e].pc = "handlers"
  /\ proc[p].task[e].run[h] = "running"
  /\ LET tk  == proc[p].task[e]
         handlerResults == tk.lockedEvent.handler_results[h]
         res == CASE outcome = "ok" ->
                       [handlerResults EXCEPT !.processed_at = getDate]
                  [] outcome = "unprocessable" ->
                       [handlerResults EXCEPT !.unprocessable_at = getDate,
                                              !.errors = @ + 1]
                  [] OTHER ->
                       [handlerResults EXCEPT !.errors = @ + 1]
         tk0 == [tk EXCEPT !.lockedEvent.handler_results[h] = res,
                           !.errored = @ \/ outcome # "ok",
                           !.failed = @ \/ outcome # "ok",
                           !.run[h] = "done"]
     IN \E tk1 \in {Dispatch(tk0)} : \E invoked \in {Invoked(tk0, tk1)} :
        /\ proc' = [proc EXCEPT ![p].task[e] = tk1]
        /\ invocations' = [invocations EXCEPT ![e] =
              [g \in HandlerNames |->
                 IF g \in invoked THEN @[g] + 1 ELSE @[g]]]
  /\ returned' = IF outcome = "ok"
                   THEN [returned EXCEPT ![e] = @ \cup {h}] ELSE returned
  /\ UNCHANGED <<opts, mongo, pgTx, hybrid, signals, store, rowLock, created, attempts, rolledBack, faults,
                 hookThrew>>

\* the rollback of the task's transaction and the end of the task
Rollback(p, e) ==
  /\ rowLock' = [rowLock EXCEPT ![e] = IF @ = p THEN "none" ELSE @]
  /\ rolledBack' = rolledBack \cup {e}
  /\ proc' = [proc EXCEPT ![p] = FinishTask(proc[p], e)]

\* onEventMaxErrorsReached returns, having inserted a follow-up event through
\* txClient.createEvent or not; the task goes on to updateEvent
HookReturnOutsideTx(p, e, creates) ==
  /\ proc[p].task[e].pc = "hook"
  /\ proc' = [proc EXCEPT ![p].task[e].pc = "update",
                          ![p].task[e].creates = creates]
  /\ created' = IF creates THEN created \cup {e} ELSE created
  /\ UNCHANGED <<opts, mongo, pgTx, hybrid, signals, store, rowLock, invocations, attempts, returned,
                 rolledBack, faults, hookThrew>>

HookReturn(p, e, creates) ==
  /\ proc[p].task[e].pc = "hook"
  /\ proc' = [proc EXCEPT ![p].task[e].pc = "update",
                          ![p].task[e].creates = creates]
  /\ UNCHANGED <<opts, mongo, pgTx, hybrid, signals, store, rowLock, created, invocations, attempts, returned,
                 rolledBack, faults,
                 hookThrew>>

\* onEventMaxErrorsReached throws: re-thrown out of the transaction body
HookThrowSwallowed(p, e) ==
  /\ proc[p].task[e].pc = "hook"
  /\ faults < MaxFaults
  /\ faults' = faults + 1
  /\ hookThrew' = hookThrew \cup {e}
  /\ proc' = [proc EXCEPT ![p].task[e].pc = "update"]
  /\ UNCHANGED <<opts, mongo, pgTx, hybrid, signals, store, rowLock, created, invocations, attempts, returned,
                 rolledBack>>

HookThrow(p, e) ==
  /\ proc[p].task[e].pc = "hook"
  /\ faults < MaxFaults
  /\ faults' = faults + 1
  /\ hookThrew' = hookThrew \cup {e}
  /\ Rollback(p, e)
  /\ UNCHANGED <<opts, mongo, pgTx, hybrid, signals, store, created, invocations, attempts, returned>>

\* updateEvent and COMMIT succeed: the row's mutable columns are overwritten
updateEventNoResults(row, event) ==
  [row EXCEPT !.errors = event.errors,
              !.processed_at = event.processed_at,
              !.backoff_until = event.backoff_until]

updateEventDeletesProcessed(row, event) ==
  IF event.processed_at # Null
    THEN NoRow
    ELSE [row EXCEPT !.handler_results = event.handler_results,
                     !.errors = event.errors,
                     !.processed_at = event.processed_at,
                     !.backoff_until = event.backoff_until]

updateEvent(row, event) ==
  [row EXCEPT !.handler_results = event.handler_results,
              !.errors = event.errors,
              !.processed_at = event.processed_at,
              !.backoff_until = event.backoff_until]

Commit(p, e) ==
  /\ proc[p].task[e].pc = "update"
  /\ store' = [store EXCEPT ![e] = updateEvent(@, proc[p].task[e].lockedEvent)]
  /\ created' = IF proc[p].task[e].creates THEN created \cup {e} ELSE created
  /\ rowLock' = [rowLock EXCEPT ![e] = "none"]
  /\ proc' = [proc EXCEPT ![p] = FinishTask(proc[p], e)]
  /\ UNCHANGED <<opts, mongo, pgTx, hybrid, signals, invocations, attempts, returned, rolledBack, faults,
                 hookThrew>>

\* a storage call of the transaction throws and the task leaves its id in
\* queuedEventIds
TxFailKeepsQueued(p, e) ==
  /\ proc[p].task[e].pc \in {"begin", "update"}
  /\ faults < MaxFaults
  /\ faults' = faults + 1
  /\ rowLock' = [rowLock EXCEPT ![e] = IF @ = p THEN "none" ELSE @]
  /\ rolledBack' = rolledBack \cup {e}
  /\ proc' = [proc EXCEPT ![p].task[e] = NoTask]
  /\ UNCHANGED <<opts, mongo, pgTx, hybrid, signals, store, created, invocations, attempts, returned, hookThrew>>

\* a storage call of the transaction throws (BEGIN or the lock fetch, or
\* updateEvent or COMMIT): ROLLBACK, the error is caught inside the task
TxFail(p, e) ==
  /\ proc[p].task[e].pc \in {"begin", "update"}
  /\ faults < MaxFaults
  /\ faults' = faults + 1
  /\ Rollback(p, e)
  /\ UNCHANGED <<opts, mongo, pgTx, hybrid, signals, store, created, invocations, attempts, returned, hookThrew>>

\* the process dies: its open transactions are rolled back by the server and
\* a fresh EventProcessor is constructed in a new process
Crash(p) ==
  /\ faults < MaxFaults
  /\ proc[p].state # "stopped"
  /\ faults' = faults + 1
  /\ rowLock' = [e \in Events |-> IF rowLock[e] = p THEN "none" ELSE rowLock[e]]
  /\ rolledBack' = rolledBack \cup {e \in Events : proc[p].task[e].pc \in InTx}
  /\ proc' = [proc EXCEPT ![p] = NewProcessor]
  /\ UNCHANGED <<opts, mongo, pgTx, hybrid, signals, store, created, invocations, attempts, returned, hookThrew>>

\* one second passes: every stored instant moves one second towards the past
Shift(t) == IF t = Null THEN Null ELSE IF t <= 0 THEN Past ELSE t - 1

ShiftResult(r) ==
  [r EXCEPT !.processed_at = Shift(@), !.unprocessable_at = Shift(@)]

ShiftEvent(ev) ==
  [ev EXCEPT !.backoff_until = Shift(@), !.processed_at = Shift(@),
             !.handler_results = [h \in HandlerNames |-> ShiftResult(@[h])]]

Tick ==
  /\ store' = [e \in Events |-> ShiftEvent(store[e])]
  /\ proc' = [p \in Procs |->
                [proc[p] EXCEPT !.task = [e \in Events |->
                    [@[e] EXCEPT !.lockedEvent = ShiftEvent(@),
                                 !.backoffs = {Shift(t) : t \in @}]]]]
  /\ <<store', proc'>> # <<store, proc>>
  /\ UNCHANGED <<opts, mongo, pgTx, hybrid, signals, rowLock, created, invocations, attempts, returned,
                 rolledBack, faults,
                 hookThrew>>

Next ==
  \/ \E p \in Procs : Start(p)
  \/ \E p \in Procs : Poll(p)
  \/ \E p \in Procs : PollFail(p)
  \/ \E p \in Procs, e \in Events : Lock(p, e)
  \/ \E p \in Procs, e \in Events, h \in HandlerNames, o \in Outcomes :
        HandlerSettle(p, e, h, o)
  \/ \E p \in Procs, e \in Events, c \in BOOLEAN : HookReturn(p, e, c)
  \/ \E p \in Procs, e \in Events : HookThrow(p, e)
  \/ \E p \in Procs, e \in Events : Commit(p, e)
  \/ \E p \in Procs, e \in Events : TxFail(p, e)
  \/ \E p \in Procs : Crash(p)
  \/ Tick

Spec == Init /\ [][Next]_vars

\* ------------------------------------------------------ EventProcessor.stop
\* stop() up to its await: the state becomes "stopping", the signal is aborted
\* and the pool is paused.  Every task was added with { signal }: the pool
\* races a started task against the abort, so at the abort the add() promise
\* of each running task rejects, its catch deletes the id from queuedEventIds
\* and the pool stops counting the task as pending, while the task's function
\* runs on.  The loop is either inside getEventsToProcess (one last iteration
\* follows) or asleep (it ends when the sleep is over).
Stop(p) ==
  /\ proc[p].state = "started"
  /\ \E l \in IF proc[p].loop = "on" THEN {"last", "off"} ELSE {proc[p].loop} :
       proc' = [proc EXCEPT
                  ![p].state = "stopping",
                  ![p].aborted = TRUE,
                  ![p].paused = TRUE,
                  ![p].loop = l,
                  ![p].queuedEventIds = @ \ Running(proc[p]),
                  ![p].task = [e \in Events |->
                                 IF e \in Running(proc[p])
                                   THEN [@[e] EXCEPT !.detached = TRUE] ELSE @[e]]]
  /\ UNCHANGED <<opts, mongo, pgTx, hybrid, signals, store, rowLock, created, invocations, attempts, returned,
                 rolledBack, hookThrew, faults>>

\* stop() after its await: Promise.race of queue.onPendingZero() and the
\* timeout; the state becomes "stopped" and stop() returns, or throws the
\* shutdown timeout error when tasks were still pending
StopSettle(p) ==
  /\ proc[p].state = "stopping"
  /\ proc' = [proc EXCEPT
                ![p].state = "stopped",
                ![p].stopResult = IF Running(proc[p]) = {} THEN "ok" ELSE "timeout"]
  /\ UNCHANGED <<opts, mongo, pgTx, hybrid, signals, store, rowLock, created, invocations, attempts, returned,
                 rolledBack, hookThrew, faults>>

\* start() in a state other than "stopped": "cannot start processor from
\* '<state>'" is logged and start() returns
StartIgnoredStarts(p) ==
  /\ proc[p].state # "stopped"
  /\ proc' = [proc EXCEPT ![p].warned = "cannot start",
                          ![p].state = "started", ![p].loop = "on"]
  /\ UNCHANGED <<opts, mongo, pgTx, hybrid, signals, store, rowLock, created, invocations, attempts, returned,
                 rolledBack, hookThrew, faults>>

StartIgnored(p) ==
  /\ proc[p].state # "stopped"
  /\ proc' = [proc EXCEPT ![p].warned = "cannot start"]
  /\ UNCHANGED <<opts, mongo, pgTx, hybrid, signals, store, rowLock, created, invocations, attempts, returned,
                 rolledBack, hookThrew, faults>>

\* stop() in a state other than "started": "cannot stop processor from
\* '<state>'" is logged and stop() returns
StopIgnored(p) ==
  /\ proc[p].state # "started"
  /\ proc' = [proc EXCEPT ![p].warned = "cannot stop"]
  /\ UNCHANGED <<opts, mongo, pgTx, hybrid, signals, store, rowLock, created, invocations, attempts, returned,
                 rolledBack, hookThrew, faults>>

\* ------------------------------------------------- TxOBError.backoffUntil
\* the backoffUntil instants a handler may throw with
HintTimes == {1, 3, 5}

SetMax(S) == CHOOSE x \in S : \A y \in S : y <= x

\* latest wins: a non-terminal errored attempt persists the latest of the
\* collected backoffUntil instants and the policy's backoff(errors)
latestBackoff(tk) ==
  IF tk.pc = "update" /\ tk.errored /\ tk.lockedEvent.processed_at = Null
    THEN [tk EXCEPT !.lockedEvent.backoff_until = SetMax(tk.backoffs \cup {@})]
    ELSE tk

\* a handler settles in a processor that honours TxOBError: outcome "hint" is
\* a TxOBError carrying backoffUntil = t, recorded like any other error and
\* collected; the other outcomes are those of HandlerSettle
HintSettle(p, e, h, outcome, t) ==
  /\ proc[p].task[e].pc = "handlers"
  /\ proc[p].task[e].run[h] = "running"
  /\ outcome = "hint" \/ t = Null
  /\ LET tk  == proc[p].task[e]
         handlerResults == tk.lockedEvent.handler_results[h]
         res == CASE outcome = "ok" ->
                       [handlerResults EXCEPT !.processed_at = getDate]
                  [] outcome = "unprocessable" ->
                       [handlerResults EXCEPT !.unprocessable_at = getDate,
                                              !.errors = @ + 1]
                  [] OTHER ->
                       [handlerResults EXCEPT !.errors = @ + 1]
         tk0 == [tk EXCEPT !.lockedEvent.handler_results[h] = res,
                           !.errored = @ \/ outcome # "ok",
                           !.failed = @ \/ outcome # "ok",
                           !.backoffs = IF outcome = "hint" THEN @ \cup {t} ELSE @,
                           !.run[h] = "done"]
     IN \E tk1 \in {latestBackoff(Dispatch(tk0))} : \E invoked \in {Invoked(tk0, tk1)} :
        /\ proc' = [proc EXCEPT ![p].task[e] = tk1]
        /\ invocations' = [invocations EXCEPT ![e] =
              [g \in HandlerNames |->
                 IF g \in invoked THEN @[g] + 1 ELSE @[g]]]
  /\ returned' = IF outcome = "ok"
                   THEN [returned EXCEPT ![e] = @ \cup {h}] ELSE returned
  /\ UNCHANGED <<opts, mongo, pgTx, hybrid, signals, store, rowLock, created, attempts, rolledBack, faults,
                 hookThrew>>

\* one processor that honours TxOBError, the default options, one inserted
\* event with two handlers, no faults
HintInit ==
  /\ opts = DefaultOpts
  /\ store = [e \in Events |-> IF e = 1 THEN NewEvent("X") ELSE NoRow]
  /\ InitRest

HintNext ==
  \/ Start("p1")
  \/ Poll("p1")
  \/ \E e \in Events : Lock("p1", e)
  \/ \E e \in Events, h \in HandlerNames, o \in Outcomes \cup {"hint"},
         t \in HintTimes \cup {Null} : HintSettle("p1", e, h, o, t)
  \/ \E e \in Events, c \in BOOLEAN : HookReturn("p1", e, c)
  \/ \E e \in Events : Commit("p1", e)
  \/ Tick

HintSpec == HintInit /\ [][HintNext]_vars

\* the scenarios of the documentation: one processor with maxErrors = 3, one
\* inserted event of a type with the three handlers a, b and c, no faults
ScenarioInit ==
  /\ opts = [DefaultOpts EXCEPT !.maxErrors = 3]
  /\ store = [e \in Events |-> IF e = 1 THEN NewEvent("S") ELSE NoRow]
  /\ InitRest

ScenarioNext ==
  \/ Start("p1")
  \/ Poll("p1")
  \/ \E e \in Events : Lock("p1", e)
  \/ \E e \in Events, h \in HandlerNames, o \in Outcomes : HandlerSettle("p1", e, h, o)
  \/ \E e \in Events, c \in BOOLEAN : HookReturn("p1", e, c)
  \/ \E e \in Events : Commit("p1", e)
  \/ Tick

ScenarioSpec == ScenarioInit /\ [][ScenarioNext]_vars

\* the handler pool: one processor, one event with three handlers, any
\* maxHandlerConcurrency from one at a time to the default
LimitInit ==
  /\ opts \in {[DefaultOpts EXCEPT !.maxHandlerConcurrency = n] :
                 n \in {1, 2, defaultMaxHandlerConcurrency}}
  /\ store = [e \in Events |-> IF e = 1 THEN NewEvent("S") ELSE NoRow]
  /\ InitRest

LimitNext ==
  \/ Start("p1")
  \/ Poll("p1")
  \/ \E e \in Events : Lock("p1", e)
  \/ \E e \in Events, h \in HandlerNames, o \in Outcomes : HandlerSettle("p1", e, h, o)
  \/ \E e \in Events, c \in BOOLEAN : HookReturn("p1", e, c)
  \/ \E e \in Events : Commit("p1", e)
  \/ Tick

LimitSpec == LimitInit /\ [][LimitNext]_vars

\* the work pool: one processor with maxEventConcurrency one or the default
\* and two events in the table, which one poll returns together; the
\* processor may be stopped
PoolInit ==
  /\ opts \in {[DefaultOpts EXCEPT !.maxEventConcurrency = n] :
                 n \in {1, defaultMaxEventConcurrency}}
  /\ store = [e \in Events |-> IF e = 1 THEN NewEvent("X") ELSE NewEvent("Z")]
  /\ InitRest

PoolNext ==
  \/ Start("p1")
  \/ Poll("p1")
  \/ \E e \in Events : Lock("p1", e)
  \/ \E e \in Events, h \in HandlerNames, o \in Outcomes : HandlerSettle("p1", e, h, o)
  \/ \E e \in Events, c \in BOOLEAN : HookReturn("p1", e, c)
  \/ \E e \in Events : Commit("p1", e)
  \/ Stop("p1")
  \/ StopSettle("p1")
  \/ Tick

PoolSpec == PoolInit /\ [][PoolNext]_vars

\* the lifecycle: one processor with the default options that is started and
\* stopped, one inserted event with two handlers, no faults
StopInit ==
  /\ opts = DefaultOpts
  /\ store = [e \in Events |-> IF e = 1 THEN NewEvent("X") ELSE NoRow]
  /\ InitRest

StopNext ==
  \/ Start("p1")
  \/ Poll("p1")
  \/ \E e \in Events : Lock("p1", e)
  \/ \E e \in Events, h \in HandlerNames, o \in Outcomes : HandlerSettle("p1", e, h, o)
  \/ \E e \in Events, c \in BOOLEAN : HookReturn("p1", e, c)
  \/ \E e \in Events : Commit("p1", e)
  \/ Stop("p1")
  \/ StopSettle("p1")
  \/ StartIgnored("p1")
  \/ StopIgnored("p1")
  \/ Tick

StopSpec == StopInit /\ [][StopNext]_vars

\* a step of processor p other than a fault
\* ------------------------------------------ the adapter's transaction(fn)
\* the values a query or fn can throw
Thrown == {"e1", "e2"}

\* error instanceof Error ? error.message : String(error)
message(error) == error

\* throw error: the caught value itself
Rethrown(error) == [id |-> error, message |-> <<message(error)>>, cause |-> "none"]

\* new Error(`Transaction failed: ... (rollback also failed: ...)`, { cause })
CompositeError(error, rollbackError) ==
  [id |-> "new Error",
   message |-> <<"Transaction failed: ", message(error),
                 " (rollback also failed: ", message(rollbackError), ")">>,
   cause |-> error]

\* a statement or fn has thrown: control is in the catch block
Caught(t, error) == [t EXCEPT !.pc = "catch", !.error = error]

\* await querier.query("BEGIN")
TxBegin(p, thrown) ==
  /\ pgTx[p].pc = "idle"
  /\ pgTx' = [pgTx EXCEPT ![p] =
       LET t == [NoTx EXCEPT !.queries = <<"BEGIN">>]
       IN IF thrown = "none" THEN [t EXCEPT !.pc = "fn"] ELSE Caught(t, thrown)]
  /\ UNCHANGED <<opts, mongo, store, rowLock, created, proc, invocations, attempts,
                 returned, rolledBack, hookThrew, faults, hybrid, signals>>

\* await fn(txProcessorClient)
TxFn(p, thrown) ==
  /\ pgTx[p].pc = "fn"
  /\ pgTx' = [pgTx EXCEPT ![p] =
       IF thrown = "none" THEN [@ EXCEPT !.pc = "commit"] ELSE Caught(@, thrown)]
  /\ UNCHANGED <<opts, mongo, store, rowLock, created, proc, invocations, attempts,
                 returned, rolledBack, hookThrew, faults, hybrid, signals>>

\* await querier.query("COMMIT")
TxCommit(p, thrown) ==
  /\ pgTx[p].pc = "commit"
  /\ pgTx' = [pgTx EXCEPT ![p] =
       LET t == [@ EXCEPT !.queries = Append(@, "COMMIT")]
       IN IF thrown = "none"
            THEN [t EXCEPT !.pc = "done", !.outcome = "resolved"]
            ELSE Caught(t, thrown)]
  /\ UNCHANGED <<opts, mongo, store, rowLock, created, proc, invocations, attempts,
                 returned, rolledBack, hookThrew, faults, hybrid, signals>>

\* the catch block: ROLLBACK, then the caught error is thrown again
TxRollbackThrowsRollbackError(p, thrown) ==
  /\ pgTx[p].pc = "catch"
  /\ pgTx' = [pgTx EXCEPT ![p] =
       [@ EXCEPT !.queries = Append(@, "ROLLBACK"),
                 !.pc = "done",
                 !.outcome = "rejected",
                 !.rollbackError = thrown,
                 !.raised = IF thrown = "none" THEN Rethrown(pgTx[p].error)
                                              ELSE Rethrown(thrown)]]
  /\ UNCHANGED <<opts, mongo, store, rowLock, created, proc, invocations, attempts,
                 returned, rolledBack, hookThrew, faults, hybrid, signals>>

TxRollback(p, thrown) ==
  /\ pgTx[p].pc = "catch"
  /\ pgTx' = [pgTx EXCEPT ![p] =
       [@ EXCEPT !.queries = Append(@, "ROLLBACK"),
                 !.pc = "done",
                 !.outcome = "rejected",
                 !.rollbackError = thrown,
                 !.raised = IF thrown = "none"
                              THEN Rethrown(pgTx[p].error)
                              ELSE CompositeError(pgTx[p].error, thrown)]]
  /\ UNCHANGED <<opts, mongo, store, rowLock, created, proc, invocations, attempts,
                 returned, rolledBack, hookThrew, faults, hybrid, signals>>

\* the caller has seen the outcome; the connection is used again
TxReturn(p) ==
  /\ pgTx[p].pc = "done"
  /\ pgTx' = [pgTx EXCEPT ![p] = NoTx]
  /\ UNCHANGED <<opts, mongo, store, rowLock, created, proc, invocations, attempts,
                 returned, rolledBack, hookThrew, faults, hybrid, signals>>

\* transaction(fn) calls on two connections, any statement or fn throwing
TxInit ==
  /\ opts = DefaultOpts
  /\ store = [e \in Events |-> NoRow]
  /\ InitRest

TxNext ==
  \/ \E p \in Procs, thrown \in Thrown \cup {"none"} : TxBegin(p, thrown)
  \/ \E p \in Procs, thrown \in Thrown \cup {"none"} : TxFn(p, thrown)
  \/ \E p \in Procs, thrown \in Thrown \cup {"none"} : TxCommit(p, thrown)
  \/ \E p \in Procs, thrown \in Thrown \cup {"none"} : TxRollback(p, thrown)
  \/ \E p \in Procs : TxReturn(p)

TxSpec == TxInit /\ [][TxNext]_vars

\* ------------------------------------------------------------ hybrid mode
\* poll(): the isPolling guard rejects reentry, else getEventsToProcess is
\* called
pollNoGuard(h) == [h EXCEPT !.isPolling = TRUE, !.polls = @ + 1]

poll(h) ==
  IF h.isPolling THEN h ELSE [h EXCEPT !.isPolling = TRUE, !.polls = @ + 1]

\* the throttled poll: the leading edge polls at once and opens the throttle
\* window, a call inside the window asks for one trailing poll
throttledPoll(h) ==
  IF h.throttle = "idle"
    THEN [poll(h) EXCEPT !.throttle = "window"]
    ELSE [h EXCEPT !.throttle = "trailing"]

\* start() with a wakeup emitter: the listener is attached and the fallback
\* timer started; lastWakeupTime may or may not count as long ago
HybridStart(p, silent) ==
  /\ proc[p].state = "stopped"
  /\ proc' = [proc EXCEPT ![p].state = "started", ![p].queuedEventIds = {}]
  /\ hybrid' = [hybrid EXCEPT ![p].listening = TRUE, ![p].silent = silent]
  /\ UNCHANGED <<opts, mongo, store, rowLock, created, invocations, attempts, returned,
                 rolledBack, hookThrew, faults, pgTx, signals>>

\* an insert under the wakeup trigger: the row and a notification
HybridInsert(e, t) ==
  /\ store[e] = NoRow
  /\ store' = [store EXCEPT ![e] = NewEvent(t)]
  /\ signals' = signals + 1
  /\ UNCHANGED <<opts, mongo, rowLock, created, proc, invocations, attempts, returned,
                 rolledBack, hookThrew, faults, pgTx, hybrid>>

\* a notification never reaches the listener
SignalLost ==
  /\ signals > 0
  /\ signals' = signals - 1
  /\ UNCHANGED <<opts, mongo, store, rowLock, created, proc, invocations, attempts,
                 returned, rolledBack, hookThrew, faults, pgTx, hybrid>>

\* the wakeup listener: lastWakeupTime is updated, the throttled poll called
Wakeup(p) ==
  /\ signals > 0
  /\ hybrid[p].listening
  /\ signals' = signals - 1
  /\ hybrid' = [hybrid EXCEPT ![p] =
       throttledPoll([@ EXCEPT !.silent = FALSE, !.wakeups = @ + 1])]
  /\ UNCHANGED <<opts, mongo, store, rowLock, created, proc, invocations, attempts,
                 returned, rolledBack, hookThrew, faults, pgTx>>

\* wakeupTimeoutMs have passed since the last wakeup
SilenceElapses(p) ==
  /\ hybrid[p].listening
  /\ ~ hybrid[p].silent
  /\ hybrid' = [hybrid EXCEPT ![p].silent = TRUE]
  /\ UNCHANGED <<opts, mongo, store, rowLock, created, proc, invocations, attempts,
                 returned, rolledBack, hookThrew, faults, pgTx, signals>>

\* the fallback timer, every pollingIntervalMs: it polls only if
\* now - lastWakeupTime >= wakeupTimeoutMs
FallbackTickWhileFresh(p) ==
  /\ hybrid[p].listening
  /\ ~ hybrid[p].silent
  /\ hybrid' = [hybrid EXCEPT ![p] = throttledPoll(@)]
  /\ hybrid' # hybrid
  /\ UNCHANGED <<opts, mongo, store, rowLock, created, proc, invocations, attempts,
                 returned, rolledBack, hookThrew, faults, pgTx, signals>>

FallbackTick(p) ==
  /\ hybrid[p].listening
  /\ hybrid[p].silent
  /\ hybrid' = [hybrid EXCEPT ![p] = throttledPoll(@)]
  /\ hybrid' # hybrid
  /\ UNCHANGED <<opts, mongo, store, rowLock, created, proc, invocations, attempts,
                 returned, rolledBack, hookThrew, faults, pgTx, signals>>

\* the throttle window ends: the trailing poll, if one was asked for, is made
\* and opens the next window
ThrottleTimer(p) ==
  /\ hybrid[p].throttle # "idle"
  /\ hybrid' = [hybrid EXCEPT ![p] =
       IF @.throttle = "trailing"
         THEN [poll(@) EXCEPT !.throttle = "window"]
         ELSE [@ EXCEPT !.throttle = "idle"]]
  /\ UNCHANGED <<opts, mongo, store, rowLock, created, proc, invocations, attempts,
                 returned, rolledBack, hookThrew, faults, pgTx, signals>>

\* getEventsToProcess of a poll returns: the events not yet in flight are
\* submitted to the pool and isPolling is cleared
HybridPollEnd(p) ==
  /\ hybrid[p].polls > 0
  /\ \E events \in {getEventsToProcess} :
     \E unqueuedEvents \in {SelectSeq(events, LAMBDA e : e \notin proc[p].queuedEventIds)} :
     \E pr \in {Submit(proc[p], unqueuedEvents)} :
       proc' = [proc EXCEPT ![p] = tryToStartAnother(pr)]
  /\ hybrid' = [hybrid EXCEPT ![p].polls = @ - 1, ![p].isPolling = FALSE]
  /\ UNCHANGED <<opts, mongo, store, rowLock, created, invocations, attempts, returned,
                 rolledBack, hookThrew, faults, pgTx, signals>>

\* one processor in hybrid mode, an event in the table before it starts and
\* one inserted later under the wakeup trigger; handlers succeed or fail
\* transiently
HybridInit ==
  /\ opts = DefaultOpts
  /\ store = [e \in Events |-> IF e = 1 THEN NewEvent("X") ELSE NoRow]
  /\ InitRest

HybridNext ==
  \/ \E silent \in BOOLEAN : HybridStart("p1", silent)
  \/ HybridInsert(2, "Z")
  \/ SignalLost
  \/ Wakeup("p1")
  \/ SilenceElapses("p1")
  \/ FallbackTick("p1")
  \/ ThrottleTimer("p1")
  \/ HybridPollEnd("p1")
  \/ \E e \in Events : Lock("p1", e)
  \/ \E e \in Events, h \in HandlerNames, o \in {"ok", "transient"} :
        HandlerSettle("p1", e, h, o)
  \/ \E e \in Events : HookReturn("p1", e, FALSE)
  \/ \E e \in Events : Commit("p1", e)
  \/ Tick

HybridSpec == HybridInit /\ [][HybridNext]_vars

\* the tasks of the processor's pool make progress
HybridRun(p) ==
  \/ \E e \in Events : Lock(p, e)
  \/ \E e \in Events, h \in HandlerNames, o \in {"ok", "transient"} :
        HandlerSettle(p, e, h, o)
  \/ \E e \in Events : HookReturn(p, e, FALSE)
  \/ \E e \in Events : Commit(p, e)

\* the processor is started and its timers fire
HybridTimers(p) ==
  \/ \E silent \in BOOLEAN : HybridStart(p, silent)
  \/ SilenceElapses(p)
  \/ FallbackTick(p)
  \/ ThrottleTimer(p)

\* the processor is started, its timers fire, its storage calls return, its
\* tasks make progress and time passes; nothing is assumed about the
\* delivery of notifications
HybridLiveSpec ==
  /\ HybridSpec
  /\ WF_vars(Tick)
  /\ WF_vars(HybridTimers("p1"))
  /\ WF_vars(HybridPollEnd("p1"))
  /\ WF_vars(HybridRun("p1"))

Run(p) ==
  \/ Start(p)
  \/ Poll(p)
  \/ \E e \in Events : Lock(p, e)
  \/ \E e \in Events, h \in HandlerNames, o \in Outcomes : HandlerSettle(p, e, h, o)
  \/ \E e \in Events, c \in BOOLEAN : HookReturn(p, e, c)
  \/ \E e \in Events : Commit(p, e)

\* -------------------------------------------------------- storage outages
\* the application inserts an event into the table
Insert(e, t) ==
  /\ store[e] = NoRow
  /\ store' = [store EXCEPT ![e] = NewEvent(t)]
  /\ UNCHANGED <<opts, mongo, pgTx, hybrid, signals, rowLock, created, proc, invocations, attempts, returned,
                 rolledBack, faults, hookThrew>>

\* one processor whose storage fails now and then (a poll or a per-event
\* transaction), and a second event, of the type whose handler group is
\* empty, inserted at any time
OutageInit ==
  /\ opts = DefaultOpts
  /\ store = [e \in Events |-> IF e = 1 THEN NewEvent("X") ELSE NoRow]
  /\ InitRest

OutageNext ==
  \/ Start("p1")
  \/ Poll("p1")
  \/ PollFail("p1")
  \/ \E e \in Events : Lock("p1", e)
  \/ \E e \in Events, h \in HandlerNames, o \in Outcomes : HandlerSettle("p1", e, h, o)
  \/ \E e \in Events, c \in BOOLEAN : HookReturn("p1", e, c)
  \/ \E e \in Events : Commit("p1", e)
  \/ \E e \in Events : TxFail("p1", e)
  \/ Insert(2, "Z")
  \/ Tick

OutageSpec == OutageInit /\ [][OutageNext]_vars

\* the processor keeps running and the storage failures are finitely many
OutageLiveSpec == OutageSpec /\ WF_vars(Tick) /\ WF_vars(Run("p1"))

\* the processors keep running: a constructed processor is started, its loop
\* polls, every awaited call (storage, handler, hook) returns, time passes;
\* the injected faults are finitely many
Fairness ==
  /\ WF_vars(Tick)
  /\ \A p \in Procs : WF_vars(Run(p))

LiveSpec == Spec /\ Fairness

\* ---------------------------------------------------------------- properties
Task(p, e) == proc[p].task[e]

HandlersOf(e) == Range(eventHandlerMap(store[e]))

\* the step is the commit of p's attempt on e / the step in which p's attempt
\* on e computes the next state of its locked event
CommitStep(p, e) ==
  Task(p, e).pc = "update" /\ proc'[p].task[e].pc = "none" /\ faults' = faults

ComputeStep(p, e) ==
  /\ Task(p, e).pc \in {"begin", "handlers"}
  /\ proc'[p].task[e].pc \in {"hook", "update"}

\* the step invokes handler h for event e
InvokeStep(e, h) == invocations'[e][h] # invocations[e][h]

\* C1: no event is inside more than one processEvent transaction at a time:
\* while one processor holds the locked row of an event, no other processor
\* holds it or has a handler running for it
C1_SkipLocked ==
  \A e \in Events :
    /\ Cardinality({p \in Procs : Task(p, e).pc \in Holding}) <= 1
    /\ \A p \in Procs : Task(p, e).pc \in Holding => rowLock[e] = p
    /\ \A p \in Procs : (\E h \in HandlerNames : Task(p, e).run[h] = "running")
                           => rowLock[e] = p

\* C1 witness: one processor runs handlers of the event while the other has
\* polled the same id and is about to ask for the lock
C1_Witness ==
  \E p, q \in Procs :
    /\ p # q
    /\ Task(p, 1).pc = "handlers"
    /\ Task(q, 1).pc = "begin"

\* every handler of the event's group has processed_at or unprocessable_at
\* set, or the event has exhausted its errors
Settled(e) ==
  \/ \A h \in HandlersOf(e) :
        \/ store[e].handler_results[h].processed_at # Null
        \/ store[e].handler_results[h].unprocessable_at # Null
  \/ store[e].errors = maxErrors

\* C2: under the fairness of LiveSpec every inserted event whose type has a
\* handler group eventually is terminal, and then every handler of the group
\* is processed or unprocessable or the event has errors = maxErrors
C2_EventuallyTerminal ==
  \A e \in Events :
    (e \in Rows /\ store[e].type \in DOMAIN handlerMap)
       ~> (store[e].processed_at # Null /\ Settled(e))

\* C2 witness: the event became terminal after a transient failure, a backoff
\* and a retry in which the failed handler succeeded
C2_Witness ==
  /\ store[1].type = "X"
  /\ store[1].processed_at # Null
  /\ store[1].errors = 1
  /\ store[1].handler_results["b"].errors = 1
  /\ store[1].handler_results["b"].processed_at # Null

\* C3: a handler whose processed_at has been committed is never invoked again
\* for that event, by any processor, also after a restart
C3_CommittedHandlerNotReinvoked ==
  [][\A e \in Events, h \in HandlerNames :
        store[e].handler_results[h].processed_at # Null => ~InvokeStep(e, h)]_vars

\* C3 witness: a retry attempt of a restarted processor runs handler b while
\* the success of handler a is already committed
C3_Witness ==
  /\ faults > 0
  /\ store[1].handler_results["a"].processed_at # Null
  /\ \E p \in Procs : /\ Task(p, 1).run["b"] = "running"
                      /\ Task(p, 1).run["a"] = "done"

\* C4 as claimed: a handler that has returned successfully once is never
\* invoked again, even when the attempt in which it returned did not commit
C4_Original ==
  [][\A e \in Events, h \in HandlerNames :
        h \in returned[e] => ~InvokeStep(e, h)]_vars

\* C4 amended: a handler that has returned successfully is invoked again only
\* when its success was never committed because an attempt on the event was
\* rolled back (storage failure, hook failure or crash)
C4_ReinvokedOnlyAfterRollback ==
  [][\A e \in Events, h \in HandlerNames :
        (h \in returned[e] /\ InvokeStep(e, h))
           => (e \in rolledBack /\ store[e].handler_results[h].processed_at = Null)]_vars

\* C4 witness: handler a returned, the attempt was rolled back, and a later
\* attempt is running handler a again
C4_Witness ==
  /\ "a" \in returned[1]
  /\ 1 \in rolledBack
  /\ invocations[1]["a"] = 2
  /\ \E p \in Procs : Task(p, 1).run["a"] = "running"

\* C5: once processed_at is persisted for an event, no handler is invoked for
\* it and its row is not written again (a Tick only ages the stored instants)
C5_TerminalIsFinal ==
  [][\A e \in Events :
        store[e].processed_at # Null =>
          /\ \A h \in HandlerNames : ~InvokeStep(e, h)
          /\ store'[e] \in {store[e], ShiftEvent(store[e])}
          /\ \A p \in Procs : proc'[p].task[e].pc \notin Holding]_vars

\* C5 witness: the event is terminal while a worker that polled its id
\* earlier is about to ask for the lock
C5_Witness ==
  /\ store[1].processed_at # Null
  /\ \E p \in Procs : Task(p, 1).pc = "begin"

\* C6: every committed row has errors <= maxErrors, and errors = maxErrors
\* comes with processed_at set and backoff_until null
C6_ErrorsBounded ==
  \A e \in Rows :
    /\ store[e].errors <= maxErrors
    /\ store[e].errors = maxErrors =>
         (store[e].processed_at # Null /\ store[e].backoff_until = Null)

\* C6 witness: an event of a type with handlers that exhausted its retries by
\* transient failures only
C6_Witness ==
  /\ store[1].type = "X"
  /\ store[1].errors = maxErrors
  /\ \A h \in HandlerNames : store[1].handler_results[h].unprocessable_at = Null

\* C7: persisted errors never decreases; processed_at of the event and of each
\* handler result, once set, stays set
C7_Monotone ==
  [][\A e \in Events :
        /\ store'[e].errors >= store[e].errors
        /\ store[e].processed_at # Null => store'[e].processed_at # Null
        /\ \A h \in HandlerNames :
             store[e].handler_results[h].processed_at # Null
               => store'[e].handler_results[h].processed_at # Null]_vars

\* C7 witness: a second committed attempt: handler b failed twice, handler a
\* has succeeded
C7_Witness ==
  /\ store[1].errors = 2
  /\ store[1].handler_results["a"].processed_at # Null
  /\ store[1].handler_results["b"].errors = 2

\* the attempt of p on e has a handler group, invoked no handler that failed
\* and leaves no handler of the group unprocessable
CleanAttempt(p, e, ev) ==
  /\ store[e].type \in DOMAIN handlerMap
  /\ ~ proc'[p].task[e].failed
  /\ ~ Task(p, e).failed
  /\ \A h \in HandlersOf(e) : ev.handler_results[h].unprocessable_at = Null

\* C8: an attempt in which every invoked handler succeeds and no handler of
\* the group is unprocessable computes processed_at = now, backoff_until =
\* null and the persisted errors count without invoking the hook, and commits
\* exactly that
C8_CleanAttemptSucceeds ==
  [][\A p \in Procs, e \in Events :
        /\ (ComputeStep(p, e) /\ CleanAttempt(p, e, proc'[p].task[e].lockedEvent)) =>
              /\ proc'[p].task[e].pc = "update"
              /\ ~ proc'[p].task[e].hooked
              /\ proc'[p].task[e].lockedEvent.processed_at = now
              /\ proc'[p].task[e].lockedEvent.backoff_until = Null
              /\ proc'[p].task[e].lockedEvent.errors = store[e].errors
        /\ (CommitStep(p, e) /\ CleanAttempt(p, e, Task(p, e).lockedEvent)) =>
              /\ ~ Task(p, e).hooked
              /\ store[e].processed_at = Null
              /\ store'[e].processed_at \in {now, Past}
              /\ store'[e].backoff_until = Null
              /\ store'[e].errors = store[e].errors]_vars

\* C8 witness: an event completed in a single attempt, errors = 0
C8_Witness ==
  /\ store[1].type = "X"
  /\ store[1].processed_at # Null
  /\ store[1].errors = 0
  /\ attempts[1] = 1
  /\ \A h \in HandlersOf(1) : store[1].handler_results[h].processed_at # Null

\* C9: when every attempt on an event committed, at most maxErrors attempts
\* invoked handlers and no handler was invoked more than maxErrors times
C9_AttemptsBounded ==
  \A e \in Events :
    e \notin rolledBack =>
      /\ attempts[e] <= maxErrors
      /\ \A h \in HandlerNames : invocations[e][h] <= maxErrors

\* C9 witness: a handler was invoked maxErrors times, every attempt committed
C9_Witness ==
  /\ 1 \notin rolledBack
  /\ attempts[1] = maxErrors
  /\ invocations[1]["b"] = maxErrors
  /\ store[1].processed_at # Null

\* the handlers of the attempt's event that have no processed_at
Remaining(e, ev) == {h \in HandlersOf(e) : ev.handler_results[h].processed_at = Null}

\* the outcome of a terminal failure
TerminalFailure(ev) ==
  ev.errors = maxErrors /\ ev.processed_at # Null /\ ev.backoff_until = Null

\* C10 as claimed: the group has at least one handler and every handler
\* without processed_at is unprocessable => the attempt commits terminal failure
C10_Original ==
  [][\A p \in Procs, e \in Events :
        (/\ CommitStep(p, e)
         /\ HandlersOf(e) # {}
         /\ \A h \in Remaining(e, Task(p, e).lockedEvent) :
               Task(p, e).lockedEvent.handler_results[h].unprocessable_at # Null)
          => TerminalFailure(store'[e])]_vars

\* C10 amended: at least one handler of the group lacks processed_at and every
\* such handler is unprocessable => the attempt computes, and commits,
\* terminal failure whatever the previous errors count
C10_TerminalSweep ==
  [][\A p \in Procs, e \in Events :
        /\ (/\ ComputeStep(p, e)
            /\ Remaining(e, proc'[p].task[e].lockedEvent) # {}
            /\ \A h \in Remaining(e, proc'[p].task[e].lockedEvent) :
                 proc'[p].task[e].lockedEvent.handler_results[h].unprocessable_at # Null)
             => /\ TerminalFailure(proc'[p].task[e].lockedEvent)
                /\ proc'[p].task[e].lockedEvent.processed_at = now
        /\ (/\ CommitStep(p, e)
            /\ Remaining(e, Task(p, e).lockedEvent) # {}
            /\ \A h \in Remaining(e, Task(p, e).lockedEvent) :
                 Task(p, e).lockedEvent.handler_results[h].unprocessable_at # Null)
             => TerminalFailure(store'[e])]_vars

\* C10 witness: the first attempt (a succeeded, b unprocessable) took the
\* event from errors = 0 to terminal failure
C10_Witness ==
  /\ store[1].errors = maxErrors
  /\ store[1].processed_at # Null
  /\ attempts[1] = 1
  /\ store[1].handler_results["a"].processed_at # Null
  /\ store[1].handler_results["b"].unprocessable_at # Null

\* a handler of the group is left with neither processed_at nor
\* unprocessable_at: it failed transiently in the attempt
RetryEligible(e, ev) ==
  \E h \in HandlersOf(e) : /\ ev.handler_results[h].processed_at = Null
                           /\ ev.handler_results[h].unprocessable_at = Null

\* C11: an attempt that leaves a handler retry-eligible does not take the
\* terminal sweep, whatever became unprocessable: errors grows by exactly one,
\* and unless that reaches maxErrors backoff_until is set, processed_at stays
\* unset and the hook is not invoked; the commit persists exactly that
C11_NoSweepWhileRetryEligible ==
  [][\A p \in Procs, e \in Events :
        /\ (ComputeStep(p, e) /\ RetryEligible(e, proc'[p].task[e].lockedEvent)) =>
              LET ev == proc'[p].task[e].lockedEvent
              IN /\ ev.errors = store[e].errors + 1
                 /\ ev.errors < maxErrors =>
                      /\ ev.backoff_until \notin {Null, Past}
                      /\ ev.processed_at = Null
                      /\ ~ proc'[p].task[e].hooked
                      /\ proc'[p].task[e].pc = "update"
        /\ (CommitStep(p, e) /\ RetryEligible(e, Task(p, e).lockedEvent)) =>
              /\ store'[e].errors = store[e].errors + 1
              /\ store'[e].errors < maxErrors =>
                   /\ store'[e].backoff_until # Null
                   /\ store'[e].processed_at = Null
                   /\ ~ Task(p, e).hooked]_vars

\* C11 witness: the first attempt made handler a unprocessable while handler
\* b failed transiently; the event is committed with errors = 1 and a backoff
C11_Witness ==
  /\ store[1].errors = 1
  /\ store[1].errors < maxErrors
  /\ store[1].processed_at = Null
  /\ store[1].backoff_until # Null
  /\ store[1].handler_results["a"].unprocessable_at # Null
  /\ store[1].handler_results["b"].errors = 1
  /\ store[1].handler_results["b"].unprocessable_at = Null
  /\ store[1].handler_results["b"].processed_at = Null

\* the persisted event after the first attempt of scenario S4: handler a
\* unprocessable, handler b failed transiently, handler c succeeded, errors = 1
S4AfterFirstAttempt(ev) ==
  /\ ev.type = "S"
  /\ ev.errors = 1
  /\ ev.processed_at = Null
  /\ ev.handler_results["a"].unprocessable_at # Null
  /\ ev.handler_results["b"].processed_at = Null
  /\ ev.handler_results["b"].unprocessable_at = Null
  /\ ev.handler_results["b"].errors = 1
  /\ ev.handler_results["c"].processed_at # Null

\* C12 as claimed (scenario S4, maxErrors = 3): the later attempt in which b
\* succeeds commits the event with processed_at set and errors still 1
C12_Original ==
  [][\A p \in Procs :
        (/\ CommitStep(p, 1)
         /\ S4AfterFirstAttempt(store[1])
         /\ Task(p, 1).lockedEvent.handler_results["b"].processed_at # Null)
          => (store'[1].processed_at # Null /\ store'[1].errors = 1)]_vars

\* C12 amended: that attempt commits the event with processed_at set and
\* errors = maxErrors = 3, backoff_until null, after the hook: the only handler
\* left without processed_at is the unprocessable a, so the sweep fires
C12_S4SecondAttemptSweeps ==
  [][\A p \in Procs :
        (/\ CommitStep(p, 1)
         /\ S4AfterFirstAttempt(store[1])
         /\ Task(p, 1).lockedEvent.handler_results["b"].processed_at # Null)
          => /\ store'[1].processed_at # Null
             /\ store'[1].errors = maxErrors
             /\ maxErrors = 3
             /\ store'[1].backoff_until = Null
             /\ Task(p, 1).hooked]_vars

\* C12 witness: the second attempt of scenario S4 is committed
C12_Witness ==
  /\ store[1].type = "S"
  /\ attempts[1] = 2
  /\ store[1].processed_at # Null
  /\ store[1].handler_results["a"].unprocessable_at # Null
  /\ store[1].handler_results["a"].errors = 1
  /\ store[1].handler_results["b"].processed_at # Null
  /\ store[1].handler_results["b"].errors = 1
  /\ store[1].handler_results["c"].processed_at # Null
  /\ store[1].handler_results["c"].errors = 0

C14_MissingGroupPoisons ==
  [][\A p \in Procs, e \in Rows :
        store[e].type \notin DOMAIN handlerMap =>
          /\ \A h \in HandlerNames : ~ InvokeStep(e, h)
          /\ ComputeStep(p, e) =>
                /\ proc'[p].task[e].lockedEvent.errors = maxErrors
                /\ proc'[p].task[e].lockedEvent.errors # store[e].errors + 1
                /\ proc'[p].task[e].lockedEvent.processed_at = now
                /\ proc'[p].task[e].lockedEvent.backoff_until = Null
                /\ proc'[p].task[e].hooked = onEventMaxErrorsReached
          /\ CommitStep(p, e) =>
                /\ store[e].errors = 0
                /\ TerminalFailure(store'[e])
                /\ Task(p, e).hooked = onEventMaxErrorsReached]_vars

\* C14 witness: an event of a type without a handler group is committed as
\* terminal failure without any handler invocation
C14_Witness ==
  /\ store[1].type = "Y"
  /\ store[1].errors = maxErrors
  /\ store[1].processed_at # Null
  /\ attempts[1] = 0

\* C15: an attempt on an event whose type has an empty handler group invokes
\* no handler and computes, and commits, terminal success at once:
\* processed_at = now, backoff_until = null, errors unchanged, no hook
C15_EmptyGroupSucceeds ==
  [][\A p \in Procs, e \in Rows :
        (store[e].type \in DOMAIN handlerMap /\ HandlersOf(e) = {}) =>
          /\ \A h \in HandlerNames : ~ InvokeStep(e, h)
          /\ ComputeStep(p, e) =>
                /\ proc'[p].task[e].pc = "update"
                /\ ~ proc'[p].task[e].hooked
                /\ proc'[p].task[e].lockedEvent.errors = store[e].errors
                /\ proc'[p].task[e].lockedEvent.processed_at = now
                /\ proc'[p].task[e].lockedEvent.backoff_until = Null
          /\ CommitStep(p, e) =>
                /\ ~ Task(p, e).hooked
                /\ store[e].errors = 0
                /\ store'[e].errors = 0
                /\ store'[e].processed_at # Null
                /\ store'[e].backoff_until = Null]_vars

\* C15 witness: an event of a type with an empty handler group is committed
\* as terminal success with errors = 0
C15_Witness ==
  /\ store[1].type = "Z"
  /\ store[1].processed_at # Null
  /\ store[1].errors = 0
  /\ created = {}

\* C16: with the hook configured, an attempt invokes it if and only if it
\* computes errors = maxErrors, which is terminal failure; never on terminal
\* success nor on a non-terminal errored attempt; at most once in an attempt,
\* and a terminal failure is committed only after the hook was invoked
C16_HookIffTerminalFailure ==
  [][\A p \in Procs, e \in Events :
        /\ ComputeStep(p, e) =>
              /\ (proc'[p].task[e].pc = "hook")
                    <=> (proc'[p].task[e].lockedEvent.errors = maxErrors)
              /\ proc'[p].task[e].pc = "hook"
                    => (proc'[p].task[e].errored
                          /\ TerminalFailure(proc'[p].task[e].lockedEvent))
              /\ proc'[p].task[e].hooked <=> (proc'[p].task[e].pc = "hook")
        /\ (Task(p, e).pc # "hook" /\ proc'[p].task[e].pc = "hook")
              => (ComputeStep(p, e) /\ ~ Task(p, e).hooked)
        /\ (Task(p, e).pc = "hook" /\ proc'[p].task[e].pc # "hook")
              => proc'[p].task[e].pc \in {"update", "none"}
        /\ CommitStep(p, e) =>
              /\ Task(p, e).hooked <=> (store'[e].errors = maxErrors)
              /\ Task(p, e).hooked <=> TerminalFailure(store'[e])]_vars

\* C16 witness: an event with handlers exhausted its retries, the hook has
\* returned and updateEvent is about to be called
C16_Witness ==
  \E p \in Procs :
    /\ store[1].type = "X"
    /\ Task(p, 1).pc = "update"
    /\ Task(p, 1).hooked
    /\ Task(p, 1).lockedEvent.errors = maxErrors
    /\ \A h \in HandlerNames :
         Task(p, 1).lockedEvent.handler_results[h].unprocessable_at = Null

\* C17: when the hook throws, updateEvent is not called and the transaction
\* is rolled back: the task ends, the row is exactly as before the attempt
\* (processed_at unset, errors < maxErrors), unlocked, no follow-up event is
\* committed, and the event is again among those a poll returns and submits
C17_HookThrowRollsBack ==
  [][\A e \in Events :
        e \in hookThrew' \ hookThrew =>
          \E p \in Procs :
            /\ Task(p, e).pc = "hook"
            /\ proc'[p].task[e].pc = "none"
            /\ store' = store
            /\ created' = created
            /\ rowLock'[e] = "none"
            /\ store'[e].processed_at = Null
            /\ store'[e].errors < maxErrors
            /\ e \in Rows
            /\ ReadyToProcess(store'[e])
            /\ e \notin proc'[p].queuedEventIds
            /\ proc'[p].loop = "on"]_vars

\* C17 witness: after the hook threw for the event, a later poll has
\* submitted it again and its new attempt is about to ask for the lock
C17_Witness ==
  /\ 1 \in hookThrew
  /\ store[1].processed_at = Null
  /\ \E p \in Procs : Task(p, 1).pc = "begin"

\* C18: the follow-up event the hook inserts through txClient.createEvent is
\* committed exactly with the terminal update of the failed event: it never
\* exists while the failed event is not persisted as terminal failure, it
\* appears only in the commit of an attempt whose hook inserted it, and such a
\* commit always brings it
C18_FollowUpAtomic ==
  [][\A e \in Events :
        /\ e \in created' => TerminalFailure(store'[e])
        /\ e \in created' \ created =>
              \E p \in Procs : /\ CommitStep(p, e)
                                /\ Task(p, e).creates
                                /\ store[e].processed_at = Null
        /\ \A p \in Procs :
              (Task(p, e).creates /\ Task(p, e).pc = "update"
                 /\ proc'[p].task[e].pc = "none")
                => (e \in created' <=> TerminalFailure(store'[e]))]_vars

\* C18 witness: the hook has returned after inserting a follow-up event, the
\* transaction is still open and updateEvent or the commit may yet fail
C18_Witness ==
  \E p \in Procs :
    /\ Task(p, 1).pc = "update"
    /\ Task(p, 1).creates
    /\ 1 \notin created
    /\ faults < MaxFaults

\* C19 as claimed: once stop() has returned without an error the processor
\* begins no handler invocation, and when it returns no task that was
\* executing at the abort is still running
C19_GracefulStop ==
  [][\A p \in Procs :
        /\ proc[p].stopResult = "ok" =>
              \A e \in Events, h \in HandlerNames :
                ~ (proc[p].task[e].run[h] # "running"
                     /\ proc'[p].task[e].run[h] = "running")
        /\ (proc[p].state = "stopping" /\ proc'[p].state = "stopped"
              /\ proc'[p].stopResult = "ok") =>
              \A e \in Events : proc'[p].task[e].pc \notin InTx]_vars

\* C20 as claimed: when stop() ends while a handler that ignores the
\* cancellation is still running, it ends by raising the shutdown timeout
\* error, and the state is "stopped" by then
C20_TimeoutRaised ==
  [][\A p \in Procs :
        (proc[p].state = "stopping" /\ proc'[p].state # "stopping") =>
          /\ proc'[p].state = "stopped"
          /\ (\E e \in Events, h \in HandlerNames : proc[p].task[e].run[h] = "running")
                => proc'[p].stopResult = "timeout"]_vars

\* C21: a start() in a state other than "stopped" and a stop() in a state
\* other than "started" only log their warning: the state, the polling loop,
\* the signal, the pool, the result of the last stop() and the store are as
\* before
C21_RejectedCallsChangeNothing ==
  [][\A p \in Procs :
        (proc'[p].warned # proc[p].warned /\ proc'[p].warned # "none") =>
          /\ proc'[p].warned = "cannot start" => proc[p].state # "stopped"
          /\ proc'[p].warned = "cannot stop" => proc[p].state # "started"
          /\ proc'[p].state = proc[p].state
          /\ proc'[p].loop = proc[p].loop
          /\ proc'[p].aborted = proc[p].aborted
          /\ proc'[p].stopResult = proc[p].stopResult
          /\ proc'[p] = [proc[p] EXCEPT !.warned = proc'[p].warned]
          /\ UNCHANGED <<store, rowLock, created, invocations>>]_vars

\* C21 witness: start() was called while stop() was waiting for the pool, and
\* the processor is still stopping with its task running
C21_Witness ==
  /\ proc["p1"].warned = "cannot start"
  /\ proc["p1"].state = "stopping"
  /\ proc["p1"].loop = "off"
  /\ Task("p1", 1).pc = "handlers"

\* the step in which handler h of p's attempt on e settles with a failure
FailureStep(p, e, h) ==
  /\ Task(p, e).run[h] = "running"
  /\ proc'[p].task[e].run[h] # "running"
  /\ ~ (proc'[p].task[e].pc \in Holding
          /\ proc'[p].task[e].lockedEvent.handler_results[h].processed_at # Null)
  /\ faults' = faults

\* C22: a handler's failure does not end the attempt: the task goes on with
\* the failure counted in that handler's errors, an attempt with a failed
\* handler ends only by its commit or by a fault of the hook, the storage or
\* the process, and the commit persists the handler's errors
C22_HandlerErrorsAbsorbed ==
  [][\A p \in Procs, e \in Events :
        /\ \A h \in HandlerNames :
              FailureStep(p, e, h) =>
                /\ proc'[p].task[e].pc \in Holding
                /\ proc'[p].task[e].lockedEvent.handler_results[h].errors
                     = store[e].handler_results[h].errors + 1
        /\ (Task(p, e).failed /\ Task(p, e).pc \in Holding
              /\ proc'[p].task[e].pc = "none" /\ faults' = faults) =>
              /\ CommitStep(p, e)
              /\ \E h \in HandlersOf(e) :
                    store'[e].handler_results[h].errors
                      = store[e].handler_results[h].errors + 1
              /\ \A h \in HandlerNames :
                    store'[e].handler_results[h].errors
                      = Task(p, e).lockedEvent.handler_results[h].errors]_vars

\* C22 witness: handler a failed transiently, handler b succeeded, and the
\* attempt was committed with the failure in a's result
C22_Witness ==
  /\ store[1].errors = 1
  /\ attempts[1] = 1
  /\ store[1].handler_results["a"].errors = 1
  /\ store[1].handler_results["a"].unprocessable_at = Null
  /\ store[1].handler_results["a"].processed_at = Null
  /\ store[1].handler_results["b"].processed_at # Null

\* C23: a failed getEventsToProcess changes neither the processor (its loop
\* stays alive) nor the table, and under the fairness of OutageLiveSpec every
\* event that is eligible after a storage failure, inserted before or after
\* it, is picked up by a later poll
C23_PollFailureRetried ==
  /\ [][(faults' # faults /\ \A p \in Procs : proc'[p].task = proc[p].task) =>
          UNCHANGED <<proc, store, rowLock>>]_vars
  /\ \A e \in Events :
        (faults > 0 /\ e \in Rows /\ ReadyToProcess(store[e]))
          ~> (e \in proc["p1"].queuedEventIds)

\* C23 witness: the one storage failure was a failed poll (nothing was rolled
\* back), and both the event present from the start and the event inserted
\* later have been processed
C23_Witness ==
  /\ faults = 1
  /\ rolledBack = {}
  /\ proc["p1"].loop = "on"
  /\ attempts[1] = 1
  /\ store[1].processed_at # Null
  /\ 2 \in Rows
  /\ store[2].processed_at # Null

\* the step in which p's transaction on e fails and is rolled back
TxFailStep(p, e) ==
  /\ faults' # faults
  /\ Task(p, e).pc \in InTx
  /\ proc'[p].task[e].pc = "none"
  /\ proc'[p].state = proc[p].state

\* C24: a failing per-event transaction ends only its own task: the table is
\* unchanged and the event still eligible, the row lock is released, the id
\* leaves queuedEventIds, the loop and the tasks of the other events go on
\* unchanged; and under the fairness of OutageLiveSpec a later poll submits
\* the event again
C24_TxFailureRetried ==
  /\ [][\A p \in Procs, e \in Events :
          TxFailStep(p, e) =>
            /\ store' = store
            /\ ReadyToProcess(store'[e])
            /\ rowLock'[e] = "none"
            /\ e \notin proc'[p].queuedEventIds
            /\ proc'[p].loop = proc[p].loop
            /\ proc'[p].loop = "on"
            /\ \A f \in Events \ {e} :
                  /\ proc'[p].task[f] = proc[p].task[f]
                  /\ rowLock'[f] = rowLock[f]
                  /\ f \in proc'[p].queuedEventIds <=> f \in proc[p].queuedEventIds]_vars
  /\ \A e \in Events :
        (e \in rolledBack /\ e \notin proc["p1"].queuedEventIds
           /\ ReadyToProcess(store[e]))
          ~> (e \in proc["p1"].queuedEventIds /\ Task("p1", e).pc \in InTx)

\* C24 witness: the transaction of event 2 failed while event 1 was being
\* handled; event 1 was committed by the same task and event 2 by a retry
C24_Witness ==
  /\ rolledBack = {2}
  /\ faults = 1
  /\ attempts[1] = 1
  /\ store[1].processed_at # Null
  /\ store[2].processed_at # Null
  /\ rowLock[2] = "none"

\* C25: a row of the table is never removed and never changes its inserted
\* columns (the id, here the index of the row, and the type, standing for
\* timestamp, data and correlation_id); a change of a row other than the
\* passing of time is the commit of an attempt
C25_OnlyMutableColumnsChange ==
  [][\A e \in Events :
        e \in Rows =>
          /\ store'[e] # NoRow
          /\ store'[e].type = store[e].type
          /\ DOMAIN store'[e].handler_results = DOMAIN store[e].handler_results
          /\ store'[e] # store[e] =>
                \/ store'[e] = ShiftEvent(store[e])
                \/ \E p \in Procs :
                      /\ CommitStep(p, e)
                      /\ store'[e] = [store[e] EXCEPT
                            !.handler_results = store'[e].handler_results,
                            !.errors = store'[e].errors,
                            !.backoff_until = store'[e].backoff_until,
                            !.processed_at = store'[e].processed_at]]_vars

\* C25 witness: an event of type X was retried and then committed as
\* processed; it is still in the table with its type
C25_Witness ==
  /\ 1 \in Rows
  /\ store[1].type = "X"
  /\ attempts[1] = 2
  /\ store[1].errors = 1
  /\ store[1].processed_at # Null
  /\ store[1].handler_results["a"].processed_at # Null
  /\ store[1].handler_results["b"].processed_at # Null

\* the persisted backoff_until of the row is not yet in the past
InBackoff(ev) == ev.backoff_until # Null /\ ev.backoff_until >= now

\* C26: an event whose persisted backoff_until has not passed is not returned
\* by getEventsToProcess, none of its handlers is invoked, and a task that
\* holds its id from an earlier poll ends at the lock fetch without a row
\* lock and without an invocation
C26_NoInvocationDuringBackoff ==
  [][\A e \in Events :
        (e \in Rows /\ InBackoff(store[e])) =>
          /\ e \notin Range(getEventsToProcess)
          /\ getEventByIdForUpdateSkipLocked(e) = NoRow
          /\ \A h \in HandlerNames : ~ InvokeStep(e, h)
          /\ \A p \in Procs :
                (Task(p, e).pc = "begin" /\ proc'[p].task[e].pc # "begin") =>
                   /\ proc'[p].task[e].pc = "none"
                   /\ rowLock'[e] = rowLock[e]
                   /\ attempts'[e] = attempts[e]
                   /\ store'[e] = store[e]]_vars

\* C26 witness: p1 has committed a failed attempt with a backoff that has not
\* passed, while p2 holds the id from a poll made before that commit
C26_Witness ==
  /\ InBackoff(store[1])
  /\ attempts[1] = 1
  /\ rowLock[1] = "none"
  /\ Task("p1", 1).pc = "none"
  /\ Task("p2", 1).pc = "begin"

\* C27: when a transaction(fn) call has caught an exception (of BEGIN, of fn
\* or of COMMIT), its last statement is ROLLBACK, no COMMIT is issued after
\* the exception (none at all when fn threw), the call rejects, with the
\* caught error itself when ROLLBACK succeeded and with a composite error
\* whose cause is the caught error when ROLLBACK failed; a call that caught
\* nothing issues BEGIN, COMMIT and resolves
C27_RollbackAndRethrow ==
  \A p \in Procs :
    LET t == pgTx[p]
        n == Len(t.queries)
    IN /\ t.pc = "catch" =>
            /\ t.error \in Thrown
            /\ \A i \in 1..(n - 1) : t.queries[i] # "COMMIT"
            /\ "ROLLBACK" \notin Range(t.queries)
       /\ (t.pc = "done" /\ t.error # "none") =>
            /\ t.outcome = "rejected"
            /\ t.queries[n] = "ROLLBACK"
            /\ \A i \in 1..(n - 2) : t.queries[i] # "COMMIT"
            /\ t.rollbackError = "none" => t.raised.id = t.error
            /\ t.rollbackError # "none" =>
                  /\ t.raised.id \notin Thrown
                  /\ t.raised.cause = t.error
                  /\ t.raised = CompositeError(t.error, t.rollbackError)
       /\ (t.pc = "done" /\ t.error = "none") =>
            /\ t.outcome = "resolved"
            /\ t.queries = <<"BEGIN", "COMMIT">>

\* C27 witness: fn threw e1 and ROLLBACK threw e2: the call rejected with
\* the composite error
C27_Witness ==
  /\ pgTx["p1"].pc = "done"
  /\ pgTx["p1"].queries = <<"BEGIN", "ROLLBACK">>
  /\ pgTx["p1"].error = "e1"
  /\ pgTx["p1"].rollbackError = "e2"
  /\ pgTx["p1"].raised = CompositeError("e1", "e2")

\* C28: in hybrid mode a processor has at most one poll in progress,
\* whatever the interleaving of wakeups, fallback ticks and throttle timers
C28_SinglePoll ==
  \A p \in Procs :
    /\ hybrid[p].polls <= 1
    /\ hybrid[p].isPolling <=> hybrid[p].polls = 1

\* C28 witness: a poll is in progress while a wakeup inside the throttle
\* window has asked for a trailing poll
C28_Witness ==
  /\ hybrid["p1"].polls = 1
  /\ hybrid["p1"].throttle = "trailing"
  /\ ~ hybrid["p1"].silent

\* C29: under the fairness of HybridLiveSpec, which lets every notification
\* be lost, every event in the table, inserted before or after the start,
\* eventually is polled and processed to its terminal state
C29_FallbackPollsWithoutWakeups ==
  \A e \in Events : (e \in Rows) ~> (store[e].processed_at # Null)

\* C29 witness: the event inserted after the start has been processed
\* although its notification was lost: the listener never received a wakeup
C29_Witness ==
  /\ 2 \in Rows
  /\ store[2].processed_at # Null
  /\ signals = 0
  /\ hybrid["p1"].wakeups = 0
  /\ hybrid["p1"].silent

\* handler h has neither processed_at nor unprocessable_at in the row
Pending(ev, h) ==
  /\ ev.handler_results[h].processed_at = Null
  /\ ev.handler_results[h].unprocessable_at = Null

\* C30: in an attempt a handler is invoked only if it belongs to the group
\* and its persisted result has neither processed_at nor unprocessable_at,
\* and once; a handler body that has started or finished is not started
\* again; when the attempt computes its next state every handler body has
\* finished and every such handler has settled with an outcome recorded,
\* whatever the other handlers did; updateEvent follows only then
C30_EveryPendingHandlerOnce ==
  [][\A p \in Procs, e \in Events :
        /\ \A h \in HandlerNames :
              (proc'[p].task[e].run[h] = "running" /\ Task(p, e).run[h] # "running") =>
                 /\ Task(p, e).run[h] \in {"idle", "waiting"}
                 /\ Task(p, e).run[h] = "idle" => Task(p, e).pc = "begin"
                 /\ h \in HandlersOf(e)
                 /\ Pending(store[e], h)
                 /\ invocations'[e][h] = invocations[e][h] + 1
        /\ \A h \in HandlerNames :
              (Task(p, e).pc \in Holding /\ proc'[p].task[e].pc \in Holding
                 /\ Task(p, e).run[h] = "done") =>
                 /\ proc'[p].task[e].run[h] = "done"
                 /\ invocations'[e][h] = invocations[e][h]
        /\ ComputeStep(p, e) =>
              \A h \in HandlersOf(e) :
                 /\ proc'[p].task[e].run[h] = "done"
                 /\ Pending(store[e], h) =>
                       proc'[p].task[e].lockedEvent.handler_results[h]
                         # store[e].handler_results[h]
        /\ (Task(p, e).pc \in {"hook", "update"} \/ CommitStep(p, e)) =>
              \A h \in HandlerNames : Task(p, e).run[h] \in {"idle", "done"}]_vars

\* C30 witness: with one handler at a time, handler a failed, handlers b and
\* c were still invoked, once each, and the attempt was committed after them
C30_Witness ==
  /\ opts.maxHandlerConcurrency = 1
  /\ attempts[1] = 1
  /\ store[1].errors = 1
  /\ store[1].handler_results["a"].errors = 1
  /\ store[1].handler_results["b"].processed_at # Null
  /\ store[1].handler_results["c"].processed_at # Null
  /\ \A h \in HandlerNames : invocations[1][h] = 1

\* C31: an attempt that computes a non-terminal next state has raised the
\* event's errors by one over the persisted count, however many handlers
\* failed in it, and its backoff_until is the policy's value for the raised
\* count; the commit persists that count
C31_OneErrorPerAttempt ==
  [][\A p \in Procs, e \in Events :
        /\ (ComputeStep(p, e) /\ proc'[p].task[e].lockedEvent.processed_at = Null) =>
              LET ev == proc'[p].task[e].lockedEvent
              IN /\ ev.errors = store[e].errors + 1
                 /\ ev.errors < maxErrors
                 /\ ev.backoff_until = defaultBackoff(store[e].errors + 1)
        /\ (CommitStep(p, e) /\ store'[e].processed_at = Null) =>
              /\ store'[e].errors = store[e].errors + 1
              /\ store'[e].backoff_until # Null]_vars

\* C31 witness: two attempts in each of which handlers a and b both failed:
\* the event has errors = 2, each of the handlers two failures
C31_Witness ==
  /\ attempts[1] = 2
  /\ store[1].errors = 2
  /\ store[1].processed_at = Null
  /\ store[1].handler_results["a"].errors = 2
  /\ store[1].handler_results["b"].errors = 2
  /\ store[1].handler_results["c"].processed_at # Null

\* the number of entries of handler h's errors list in a row
ErrorEntries(ev, h) == ev.handler_results[h].errors

\* C32: a handler that settles with a failure gets one more entry in its
\* errors list and one that succeeds keeps its entries; the persisted list
\* of a handler never gets shorter, a commit persists the list of the
\* attempt: the persisted entries and one more if the handler failed in it
C32_ErrorsAppendOnly ==
  [][\A p \in Procs, e \in Events, h \in HandlerNames :
        /\ (Task(p, e).run[h] = "running" /\ proc'[p].task[e].pc \in Holding
              /\ proc'[p].task[e].run[h] = "done") =>
              LET res == proc'[p].task[e].lockedEvent.handler_results[h]
              IN \/ /\ res.processed_at # Null
                    /\ res.errors = ErrorEntries(store[e], h)
                 \/ /\ res.processed_at = Null
                    /\ res.errors = ErrorEntries(store[e], h) + 1
        /\ e \in Rows => ErrorEntries(store'[e], h) >= ErrorEntries(store[e], h)
        /\ CommitStep(p, e) =>
              /\ ErrorEntries(store'[e], h) = ErrorEntries(Task(p, e).lockedEvent, h)
              /\ ErrorEntries(store'[e], h) - ErrorEntries(store[e], h) \in {0, 1}]_vars

\* C32 witness: handler a failed in two attempts and succeeded in the third:
\* it is persisted with processed_at and two entries
C32_Witness ==
  /\ attempts[1] = 3
  /\ invocations[1]["a"] = 3
  /\ store[1].handler_results["a"].processed_at # Null
  /\ ErrorEntries(store[1], "a") = 2
  /\ store[1].processed_at # Null

\* the processEvent tasks of processor p that hold event id e: waiting in the
\* pool or started and not finished
TasksHolding(p, e) ==
  Cardinality({i \in DOMAIN proc[p].queue : proc[p].queue[i] = e})
    + (IF Task(p, e).pc \in InTx THEN 1 ELSE 0)

\* C33 as claimed: within one processor an event id is held by at most one
\* queued or running processEvent task, and an id that is held by a task is
\* in queuedEventIds
C33_OneTaskPerId ==
  \A p \in Procs, e \in Events :
    /\ TasksHolding(p, e) <= 1
    /\ TasksHolding(p, e) = 1 => e \in proc[p].queuedEventIds

\* the processEvent tasks of p that have started and not finished
Executing(p) == {e \in Events : Task(p, e).pc \in InTx}

\* C34: at most maxEventConcurrency processEvent tasks of a processor are
\* executing, also when a poll returned more events and also after stop()
C34_EventConcurrencyBound ==
  \A p \in Procs : Cardinality(Executing(p)) <= maxEventConcurrency

\* C34 witness: with maxEventConcurrency = 1 a poll returned two events: the
\* task of the first is executing, the task of the second waits in the pool
C34_Witness ==
  /\ maxEventConcurrency = 1
  /\ Task("p1", 1).pc = "handlers"
  /\ Task("p1", 2).pc = "queued"
  /\ proc["p1"].queue = <<2>>
  /\ proc["p1"].queuedEventIds = {1, 2}

\* C35: at most maxHandlerConcurrency handlers of one attempt are executing
C35_HandlerConcurrencyBound ==
  \A p \in Procs, e \in Events : Active(Task(p, e)) <= maxHandlerConcurrency

\* C35 witness: with maxHandlerConcurrency = 2 and three eligible handlers two
\* are executing and the third waits for a slot
C35_Witness ==
  /\ maxHandlerConcurrency = 2
  /\ Task("p1", 1).pc = "handlers"
  /\ Active(Task("p1", 1)) = 2
  /\ \E h \in HandlerNames : Task("p1", 1).run[h] = "waiting"

\* the lock fetch of p's attempt on e can only answer null or a row that the
\* re-gate turns away: the row is gone, processed, exhausted, backing off or
\* locked by another transaction
GateClosed(e) ==
  \/ e \notin Rows
  \/ store[e].processed_at # Null
  \/ store[e].errors >= maxErrors
  \/ InBackoff(store[e])
  \/ rowLock[e] # "none"

\* the step in which the lock fetch of p's attempt on e is answered
LockFetchStep(p, e) ==
  /\ Task(p, e).pc = "begin"
  /\ proc'[p].task[e].pc # "begin"
  /\ faults' = faults

C37_SuccessMeansAllHandlersDone ==
  \A e \in Events :
    (e \in Rows /\ store[e].processed_at # Null /\ store[e].errors < maxErrors) =>
      \A h \in HandlersOf(e) :
        /\ store[e].handler_results[h].processed_at # Null
        /\ store[e].handler_results[h].unprocessable_at = Null

\* C37 witness: handler a failed in the first attempt and succeeded in the
\* second; the row is a terminal success with one error and both handlers done
C37_Witness ==
  /\ store[1].processed_at # Null
  /\ store[1].errors = 1
  /\ store[1].errors < maxErrors
  /\ attempts[1] = 2
  /\ HandlersOf(1) = {"a", "b"}
  /\ store[1].handler_results["a"].errors = 1
  /\ \A h \in HandlersOf(1) : store[1].handler_results[h].processed_at # Null

\* cancellation during an attempt: one processor with maxHandlerConcurrency
\* one or the default and an event with three handlers; the processor may be
\* stopped at any point of the attempt
CancelInit ==
  /\ opts \in {[DefaultOpts EXCEPT !.maxHandlerConcurrency = n] :
                 n \in {1, defaultMaxHandlerConcurrency}}
  /\ store = [e \in Events |-> IF e = 1 THEN NewEvent("S") ELSE NoRow]
  /\ InitRest

\* the steps of an attempt of p that holds its locked event: a handler
\* settles (it returns or throws a retryable error), the hook returns,
\* updateEvent and the commit return
AttemptRuns(p) ==
  \/ \E e \in Events, h \in HandlerNames, o \in {"ok", "transient"} :
        HandlerSettle(p, e, h, o)
  \/ \E e \in Events, c \in BOOLEAN : HookReturn(p, e, c)
  \/ \E e \in Events : Commit(p, e)

CancelNext ==
  \/ Start("p1")
  \/ Poll("p1")
  \/ \E e \in Events : Lock("p1", e)
  \/ AttemptRuns("p1")
  \/ Stop("p1")
  \/ StopSettle("p1")
  \/ Tick

CancelSpec == CancelInit /\ [][CancelNext]_vars

\* handlers, hook and storage calls of an attempt return
CancelLiveSpec == CancelSpec /\ WF_vars(AttemptRuns("p1"))

\* C38: a cancellation that arrives while an attempt holds its locked event
\* does not cut the attempt short: a waiting eligible handler is still
\* invoked, the next state is computed with every eligible handler settled,
\* the attempt ends only by the commit of its updateEvent, and it does end
C38_CancelledAttemptCompletes ==
  /\ [][\A p \in Procs, e \in Events :
          (proc[p].aborted /\ Task(p, e).pc \in Holding) =>
            /\ \A h \in HandlersOf(e) :
                  (Pending(store[e], h) /\ Task(p, e).run[h] = "waiting"
                     /\ proc'[p].task[e].run[h] # "waiting") => InvokeStep(e, h)
            /\ ComputeStep(p, e) =>
                  \A h \in HandlersOf(e) :
                    Pending(store[e], h) =>
                      proc'[p].task[e].lockedEvent.handler_results[h]
                        # store[e].handler_results[h]
            /\ proc'[p].task[e].pc \notin Holding =>
                  /\ CommitStep(p, e)
                  /\ store'[e] = updateEvent(store[e], Task(p, e).lockedEvent)
                  /\ rowLock'[e] = "none"]_vars
  /\ \A e \in Events :
        (proc["p1"].aborted /\ Task("p1", e).pc \in Holding)
          ~> (Task("p1", e).pc = "none")

\* C38 witness: with one handler at a time the processor was stopped during
\* the attempt; all three handlers have been invoked and the attempt is about
\* to commit
C38_Witness ==
  /\ opts.maxHandlerConcurrency = 1
  /\ proc["p1"].aborted
  /\ Task("p1", 1).detached
  /\ Task("p1", 1).pc = "update"
  /\ attempts[1] = 1
  /\ \A h \in HandlerNames : invocations[1][h] = 1

\* C39: once stop() has aborted a processor the cancellation and the pause
\* of its pool are permanent, also across a later start(): no task leaves the
\* pool to start, and a handler invocation begins only in a task that was
\* already executing when stop() was called
C39_NoHandlerAfterStop ==
  [][\A p \in Procs :
        proc[p].aborted =>
          /\ proc'[p].aborted
          /\ proc'[p].paused
          /\ \A e \in Events :
                /\ Task(p, e).pc \notin InTx => proc'[p].task[e].pc \notin InTx
                /\ \A h \in HandlerNames :
                      (Task(p, e).run[h] # "running"
                         /\ proc'[p].task[e].run[h] = "running") =>
                        Task(p, e).detached]_vars

\* C39 witness: the processor was stopped and started again; its loop polled
\* the ready event, whose task waits in the paused pool with no handler
\* ever invoked
C39_Witness ==
  /\ proc["p1"].aborted
  /\ proc["p1"].state = "started"
  /\ proc["p1"].stopResult = "ok"
  /\ proc["p1"].queue = <<1>>
  /\ Task("p1", 1).pc = "queued"
  /\ ReadyToProcess(store[1])
  /\ attempts[1] = 0

\* ------------------------------------------------------- MongoDB adapter
\* createReadyToProcessFilter(maxErrors)
createReadyToProcessFilter(doc) ==
  /\ doc.processed_at = Null
  /\ (doc.backoff_until = Null \/ doc.backoff_until < now)
  /\ doc.lock = "none"
  /\ doc.errors < maxErrors

\* the versions of the mongodb driver: up to 5 findOneAndUpdate resolves to a
\* ModifyResult { value, ok, lastErrorObject }, from 6.0.0 (the declared peer
\* dependency) to the document itself unless includeResultMetadata is passed
Drivers == {"ModifyResult", "document"}

\* `if (!result || !result.value) return null; return result.value`: what
\* getEventByIdForUpdateSkipLocked returns for a matched document; the
\* projection has no field named value
resultValue(matched) ==
  IF matched /\ mongo.driver = "ModifyResult" THEN "event" ELSE "null"

\* processEvent opens the transaction and calls
\* getEventByIdForUpdateSkipLocked: findOneAndUpdate stamps a lock token on
\* the document if it matches the filter. A document stamped by another open
\* transaction is a write conflict: that transaction attempt is aborted with
\* nothing written and withTransaction runs the callback again, so the step
\* waits for the other transaction
MongoFetch(p, e) ==
  /\ mongo.session[p].pc = "none"
  /\ LET matched == createReadyToProcessFilter(mongo.docs[e])
         conflict == \E q \in Procs \ {p} :
                        /\ mongo.session[q].pc # "none"
                        /\ mongo.session[q].e = e
                        /\ mongo.session[q].stamped
     IN /\ ~ (matched /\ conflict)
        /\ mongo' = [mongo EXCEPT !.session[p] =
              [pc |-> resultValue(matched), e |-> e, stamped |-> matched,
               event |-> mongo.docs[e]]]
  /\ UNCHANGED <<opts, store, rowLock, created, proc, invocations, attempts,
                 returned, rolledBack, hookThrew, faults, pgTx, hybrid, signals>>

\* the lock fetch answered null: processEvent returns from the transaction
\* body and withTransaction commits what the session has written
MongoReturn(p) ==
  /\ mongo.session[p].pc = "null"
  /\ mongo' = [mongo EXCEPT
        !.docs[mongo.session[p].e].lock =
            IF mongo.session[p].stamped THEN p ELSE @,
        !.session[p] = NoSession]
  /\ UNCHANGED <<opts, store, rowLock, created, proc, invocations, attempts,
                 returned, rolledBack, hookThrew, faults, pgTx, hybrid, signals>>

\* the handlers have settled and processEvent has computed the next state
\* of the event; updateEvent $sets it together with lock: null
MongoUpdateEvent(p, errored) ==
  /\ mongo.session[p].pc = "event"
  /\ LET ev == mongo.session[p].event
         errors == IF errored THEN nextErrors(ev.errors) ELSE ev.errors
         terminal == ~ errored \/ errors = maxErrors
     IN mongo' = [mongo EXCEPT !.session[p].pc = "updated",
                               !.session[p].event =
           [processed_at |-> IF terminal THEN getDate ELSE Null,
            errors |-> errors,
            backoff_until |-> IF terminal THEN Null ELSE backoff(errors),
            lock |-> "none"]]
  /\ UNCHANGED <<opts, store, rowLock, created, proc, invocations, attempts,
                 returned, rolledBack, hookThrew, faults, pgTx, hybrid, signals>>

\* withTransaction commits after updateEvent
MongoCommit(p) ==
  /\ mongo.session[p].pc = "updated"
  /\ mongo' = [mongo EXCEPT
        !.docs[mongo.session[p].e] = mongo.session[p].event,
        !.session[p] = NoSession]
  /\ UNCHANGED <<opts, store, rowLock, created, proc, invocations, attempts,
                 returned, rolledBack, hookThrew, faults, pgTx, hybrid, signals>>

\* the transaction body throws (the hook, a storage call): withTransaction
\* aborts the transaction and nothing the session wrote is kept
MongoAbort(p) ==
  /\ mongo.session[p].pc \in {"event", "updated"}
  /\ mongo' = [mongo EXCEPT !.session[p] = NoSession]
  /\ rolledBack' = rolledBack \cup {mongo.session[p].e}
  /\ UNCHANGED <<opts, store, rowLock, created, proc, invocations, attempts,
                 returned, hookThrew, faults, pgTx, hybrid, signals>>

\* one second passes for the documents
ShiftDoc(doc) ==
  [doc EXCEPT !.processed_at = Shift(@), !.backoff_until = Shift(@)]

MongoTick ==
  /\ mongo' = [mongo EXCEPT
        !.docs = [e \in Events |-> ShiftDoc(mongo.docs[e])],
        !.session = [p \in Procs |->
                       [mongo.session[p] EXCEPT !.event = ShiftDoc(@)]]]
  /\ mongo' # mongo
  /\ UNCHANGED <<opts, store, rowLock, created, proc, invocations, attempts,
                 returned, rolledBack, hookThrew, faults, pgTx, hybrid, signals>>

\* two processors on a collection of two fresh events, with either driver
MongoInit ==
  /\ opts = DefaultOpts
  /\ store = [e \in Events |-> NoRow]
  /\ rowLock = [e \in Events |-> "none"]
  /\ created = {}
  /\ proc = [p \in Procs |-> NewProcessor]
  /\ invocations = [e \in Events |-> [h \in HandlerNames |-> 0]]
  /\ attempts = [e \in Events |-> 0]
  /\ returned = [e \in Events |-> {}]
  /\ rolledBack = {}
  /\ hookThrew = {}
  /\ faults = 0
  /\ pgTx = [p \in Procs |-> NoTx]
  /\ hybrid = [p \in Procs |-> NoHybrid]
  /\ signals = 0
  /\ mongo \in {[NoMongo EXCEPT !.driver = d] : d \in Drivers}

MongoNext ==
  \/ \E p \in Procs, e \in Events : MongoFetch(p, e)
  \/ \E p \in Procs : MongoReturn(p)
  \/ \E p \in Procs, errored \in BOOLEAN : MongoUpdateEvent(p, errored)
  \/ \E p \in Procs : MongoCommit(p)
  \/ \E p \in Procs : MongoAbort(p)
  \/ MongoTick

MongoSpec == MongoInit /\ [][MongoNext]_vars

\* C40: no committed document of the MongoDB collection carries a lock token
C40_NoCommittedLock ==
  \A e \in Events : mongo.docs[e].lock = "none"

====
